---- MODULE Spec2Model ----
(***************************************************************************)
(* A model of llm-sqlc: the extraction of an interface contract from a Go  *)
(* source file (ExtractFirstInterface), the entity catalog scan            *)
(* (ExtractEntityDefinitions), the import merge and assembly of generated  *)
(* fragments (aggregateAndFormatOutput), the sqlc.yml merge                *)
(* (updateSqlcConfig and its legacy copy inside GenerateSQL) and the       *)
(* GenerateInfra run that strings them together.                           *)
(*                                                                         *)
(* A Go file is its sequence of top-level declarations (ast.File.Decls).   *)
(* A declaration is a record                                               *)
(*   tok    "type" | "var" | "import" | "func"      (GenDecl.Tok/FuncDecl) *)
(*   specs  the GenDecl's specs, in order                                  *)
(*   name   the FuncDecl's name ("" for a GenDecl)                         *)
(*   recv   TRUE for a FuncDecl with a receiver                            *)
(*   layout "raw" as the author wrote it, "printed" as go/printer emits it *)
(* and a spec is a record                                                  *)
(*   name, kind, fields   a TypeSpec: its name, the kind of ts.Type and,   *)
(*                        for an interface, the name list of every field   *)
(*   names, type, values  a ValueSpec: its names, the identifier of its    *)
(*                        declared type ("" when it is no identifier) and  *)
(*                        its initializers                                 *)
(***************************************************************************)
EXTENDS Integers, Sequences, FiniteSets, TLC

VARIABLES
    exFile,      \* extraction: the source file handed to ExtractFirstInterface
    exOut,       \* extraction: what ExtractFirstInterface returned for exFile
    exArtifact,  \* extraction: the file assembled from exOut and some fragments
    exResponses, \* extraction: the oracle's answers exArtifact was assembled from
    exOut2,      \* extraction: what ExtractFirstInterface returned for exArtifact
    exPc,        \* extraction: "start" | "extracted" | "assembled" | "reextracted"
    catTree,     \* catalog: the entries under rootDir, in the order WalkDir visits them
    catOut,      \* catalog: what ExtractEntityDefinitions returned
    catPc,       \* catalog: "start" | "done"
    impResponses, \* imports: the responses of the method loop, in order
    impEmitted0,   \* imports: the import block emitted for the responses as first given
    impEmitted,    \* imports: the import block emitted for impResponses
    impEdits,    \* imports: how often the responses were rearranged
    impPc,       \* imports: "start" | "merged"
    cfgVersion,  \* config: "refactored" (updateSqlcConfig) | "legacy" (GenerateSQL's tail)
    cfgRef,      \* config: relativeQueryPath, the reference to merge in
    cfgFiles,    \* config: sqlc.yml as it was at the start and after every run
    cfgLog,      \* config: what every run returned and whether it wrote the file
    runVersion,  \* run: "refactored" (the generators) | "legacy" (the old functions)
    runEntry,    \* run: "GenerateInfra" | "GenerateSQL" | "GenerateProgram"
    runStart,    \* run: the source file, the query file and sqlc.yml before the run
    runSrc,      \* run: the source file, infraFile
    runQuery,    \* run: the query file under pkg/infra/sql/query
    runCfg,      \* run: pkg/infra/sqlc.yml
    runPc,       \* run: the step the run is at, "done" or "failed"
    runErr,      \* run: the error the run returned, "none" while there is none
    runWarnings, \* run: what the run only logged a warning for
    runOut,      \* run: what ExtractFirstInterface returned last
    runCalls,    \* run: the requests the oracle has returned from, in order, with their outcome
    runOutstanding, \* run: the requests made to the oracle that have not returned yet
    runQueries,  \* run: allQueries
    runGenerated, \* run: generatedMethods
    runImports,  \* run: allMethodImports
    runIo,       \* run: the reads and writes of the source file and sqlc.yml, in order
    pathInfraFile, \* paths: infraFile as given to GenerateSQL
    pathOutput,  \* paths: the path writeSQLFile wrote the queries to
    pathRef,     \* paths: relativeQueryPath in the merge
    pathPc       \* paths: "start" | "written" | "merged"

exVars == <<exFile, exOut, exArtifact, exResponses, exOut2, exPc>>
catVars == <<catTree, catOut, catPc>>

\* What the steps of one part leave alone: the variables of the other parts.
impVars == <<impResponses, impEmitted0, impEmitted, impEdits, impPc>>
cfgVars == <<cfgVersion, cfgRef, cfgFiles, cfgLog>>
runFiles == <<runSrc, runQuery, runCfg>>
runFixed == <<runVersion, runEntry, runStart>>
runData == <<runOut, runCalls, runOutstanding, runQueries, runGenerated, runImports>>
runVars == <<runFixed, runFiles, runPc, runErr, runWarnings, runData, runIo>>
pathVars == <<pathInfraFile, pathOutput, pathRef, pathPc>>
exOthers == <<catVars, impVars, cfgVars, runVars, pathVars>>
catOthers == <<exVars, impVars, cfgVars, runVars, pathVars>>
impOthers == <<exVars, catVars, cfgVars, runVars, pathVars>>
cfgOthers == <<exVars, catVars, impVars, runVars, pathVars>>
runOthers == <<exVars, catVars, impVars, cfgVars, pathVars>>
pathOthers == <<exVars, catVars, impVars, cfgVars, runVars>>

-----------------------------------------------------------------------------
(* Generic helpers *)

Range(s) == {s[i] : i \in 1..Len(s)}

SetMin(S) == CHOOSE x \in S : \A y \in S : x <= y

SetMax(S) == CHOOSE x \in S : \A y \in S : x >= y

RECURSIVE Concat(_)
Concat(ss) == IF ss = <<>> THEN <<>> ELSE Head(ss) \o Concat(Tail(ss))

\* All sequences over S of length at most n.
SeqsUpTo(S, n) == UNION {[1..k -> S] : k \in 0..n}

-----------------------------------------------------------------------------
(* The syntax tree of a Go file *)

TypeSpec(name, kind, fields) ==
    [name |-> name, kind |-> kind, fields |-> fields,
     names |-> <<>>, type |-> "", values |-> <<>>]

ValueSpec(names, type, values) ==
    [name |-> "", kind |-> "value", fields |-> <<>>,
     names |-> names, type |-> type, values |-> values]

\* An initializer expression: lit is the node kind, type the identifier of a
\* composite literal's type ("" otherwise).
CompositeLit(type) == [lit |-> "composite", type |-> type]
OtherExpr(lit) == [lit |-> lit, type |-> ""]

GenDecl(tok, specs, layout) ==
    [tok |-> tok, specs |-> specs, name |-> "", recv |-> FALSE, layout |-> layout]

FuncDecl(name, recv, layout) ==
    [tok |-> "func", specs |-> <<>>, name |-> name, recv |-> recv, layout |-> layout]

\* A file on disk as go/parser sees it: it parses or it does not.
GoFile(decls) == [parses |-> TRUE, decls |-> decls]
BadGoFile == [parses |-> FALSE, decls |-> <<>>]

\* printer.Fprint of one declaration: the declaration in go/printer's layout.
PrintDecl(d) == [d EXCEPT !.layout = "printed"]

-----------------------------------------------------------------------------
(* ExtractFirstInterface *)

\* A text the extraction returns: "" is the empty sequence, otherwise the one
\* printed declaration.
NoText == <<>>

ExtractError(kind) ==
    [err |-> kind, name |-> "", ifaceSrc |-> NoText, methods |-> <<>>,
     implStructSrc |-> NoText, varCheckSrc |-> NoText]

\* A scan that takes any type spec for an interface.
InterfaceSpecs_AnyType(d) ==
    IF d.tok = "type" THEN 1..Len(d.specs) ELSE {}

\* The specs of a type declaration whose type is an interface, by position.
InterfaceSpecs(d) ==
    IF d.tok = "type"
    THEN {j \in 1..Len(d.specs) : d.specs[j].kind = "interface"}
    ELSE {}

\* The declarations that hold an interface spec, by position in the file.
InterfaceDecls(decls) == {i \in 1..Len(decls) : InterfaceSpecs(decls[i]) # {}}

\* A scan that lets a later interface declaration overwrite an earlier one.
FirstInterfaceDecl_LastWins(decls) == SetMax(InterfaceDecls(decls))

\* The scan of the first loop stops at the first interface spec it meets.
FirstInterfaceDecl(decls) == SetMin(InterfaceDecls(decls))

\* One name per field (its first identifier) instead of one per identifier.
RECURSIVE MethodNames_PerField(_)
MethodNames_PerField(fields) ==
    IF fields = <<>> THEN <<>>
    ELSE (IF Head(fields) # <<>> THEN <<Head(fields)[1]>> ELSE <<>>)
           \o MethodNames_PerField(Tail(fields))

\* One name per identifier of every field of the interface, in order.
MethodNames(fields) == Concat(fields)

\* A scan that takes any type spec called target for the struct.
StructSpecs_AnyKind(d, target) ==
    IF d.tok = "type"
    THEN {j \in 1..Len(d.specs) : d.specs[j].name = target}
    ELSE {}

\* The specs of a type declaration that declare a struct called target.
StructSpecs(d, target) ==
    IF d.tok = "type"
    THEN {j \in 1..Len(d.specs) :
            d.specs[j].name = target /\ d.specs[j].kind = "struct"}
    ELSE {}

StructDecls(decls, target) ==
    {i \in 1..Len(decls) : StructSpecs(decls[i], target) # {}}

\* A value spec the third loop accepts as the conformance assertion.
AcceptsVarSpec(vs, interfaceName, target) ==
    /\ \E n \in 1..Len(vs.names) : vs.names[n] = "_"
    /\ vs.type = interfaceName
    /\ Len(vs.values) # 0
    /\ vs.values[1].lit = "composite"
    /\ vs.values[1].type = target

VarDecls(decls, interfaceName, target) ==
    {i \in 1..Len(decls) :
        /\ decls[i].tok = "var"
        /\ \E j \in 1..Len(decls[i].specs) :
              AcceptsVarSpec(decls[i].specs[j], interfaceName, target)}

ExtractFirstInterface(f) ==
    IF ~f.parses THEN ExtractError("parse")
    ELSE IF InterfaceDecls(f.decls) = {} THEN ExtractError("noInterface")
    ELSE
      LET di == FirstInterfaceDecl(f.decls)
          ts == f.decls[di].specs[SetMin(InterfaceSpecs(f.decls[di]))]
          interfaceName == ts.name
          targetStructName == interfaceName \o "Impl"
          structs == StructDecls(f.decls, targetStructName)
          vars == VarDecls(f.decls, interfaceName, targetStructName)
      IN  IF structs = {} THEN ExtractError("noStruct")
          ELSE IF vars = {} THEN ExtractError("noVar")
          ELSE [err |-> "none",
                name |-> interfaceName,
                ifaceSrc |-> <<PrintDecl(f.decls[di])>>,
                methods |-> MethodNames(ts.fields),
                implStructSrc |-> <<PrintDecl(f.decls[SetMin(structs)])>>,
                varCheckSrc |-> <<PrintDecl(f.decls[SetMin(vars)])>>]

-----------------------------------------------------------------------------
(* Text *)

(***************************************************************************)
(* A Go string the model has to look into (an import text, a doc comment)  *)
(* is a sequence of tokens.  "TAB", "NL" and "SP" are the white space      *)
(* characters; "IMPORT(" is the text `import (`, "IMPORT_" the text        *)
(* `import ` of a single-line import, ")" itself; "context", "fmt" and     *)
(* "time" are the quoted import paths; "//doc" is a line comment and       *)
(* "words" text that is no comment.                                        *)
(***************************************************************************)
WhiteSpace == {"TAB", "NL", "SP"}

\* The byte order of the tokens' texts, which is what sort.Strings compares.
TokenRank(t) ==
    CASE t = "TAB" -> 1
      [] t = "NL" -> 2
      [] t = "SP" -> 3
      [] t = "context" -> 4
      [] t = "fmt" -> 5
      [] t = "time" -> 6
      [] t = ")" -> 7
      [] t = "//doc" -> 8
      [] t = "IMPORT_" -> 9
      [] t = "IMPORT(" -> 10
      [] t = "words" -> 11

RECURSIVE LexLess(_, _)
LexLess(a, b) ==
    IF b = <<>> THEN FALSE
    ELSE IF a = <<>> THEN TRUE
    ELSE IF Head(a) = Head(b) THEN LexLess(Tail(a), Tail(b))
    ELSE TokenRank(Head(a)) < TokenRank(Head(b))

RECURSIVE TrimLeft(_)
TrimLeft(s) ==
    IF s # <<>> /\ Head(s) \in WhiteSpace THEN TrimLeft(Tail(s)) ELSE s

RECURSIVE TrimRight(_)
TrimRight(s) ==
    IF s # <<>> /\ s[Len(s)] \in WhiteSpace
    THEN TrimRight(SubSeq(s, 1, Len(s) - 1))
    ELSE s

\* strings.TrimSpace
TrimSpace(s) == TrimRight(TrimLeft(s))

\* strings.TrimPrefix and strings.TrimSuffix for a one-token affix.
TrimPrefix(s, t) == IF s # <<>> /\ Head(s) = t THEN Tail(s) ELSE s
TrimSuffix(s, t) ==
    IF s # <<>> /\ s[Len(s)] = t THEN SubSeq(s, 1, Len(s) - 1) ELSE s

\* strings.Split(s, "\n"): the pieces between the line breaks, empty ones kept.
RECURSIVE SplitLines(_, _)
SplitLines(s, cur) ==
    IF s = <<>> THEN <<cur>>
    ELSE IF Head(s) = "NL" THEN <<cur>> \o SplitLines(Tail(s), <<>>)
    ELSE SplitLines(Tail(s), Append(cur, Head(s)))

-----------------------------------------------------------------------------
(* GenerationResponse and the import merge *)

\* The oracle's answer for one method.  method is the method the request
\* named; Code is the text of the function as a parsed chunk of Go.
GenerationResponse(method, code, import, doc) ==
    [method |-> method, Code |-> code, Import |-> import, DocComment |-> doc]

\* The import lines the method loop collects from one response.
RECURSIVE KeepNonBlank(_)
KeepNonBlank(lines) ==
    IF lines = <<>> THEN <<>>
    ELSE LET trimmedLine == TrimSpace(Head(lines))
         IN  (IF trimmedLine # <<>> THEN <<trimmedLine>> ELSE <<>>)
               \o KeepNonBlank(Tail(lines))

\* A collection that cuts a leading import keyword off every text.
CollectImports_CutsKeyword(import) ==
    LET impBlock == TrimSuffix(TrimPrefix(TrimSpace(SelectSeq(import, LAMBDA t : t # "IMPORT_")), "IMPORT("), ")")
    IN  KeepNonBlank(SplitLines(impBlock, <<>>))

\* impBlock and the loop over its lines in the method loop
CollectImports(import) ==
    LET impBlock == TrimSuffix(TrimPrefix(TrimSpace(import), "IMPORT("), ")")
    IN  KeepNonBlank(SplitLines(impBlock, <<>>))

\* allMethodImports after the loop has run over the responses in order.
RECURSIVE AllMethodImports(_)
AllMethodImports(responses) ==
    IF responses = <<>> THEN <<>>
    ELSE CollectImports(Head(responses).Import)
           \o AllMethodImports(Tail(responses))

\* sort.Strings over the keys of importMap.
RECURSIVE SortStrings(_)
SortStrings(S) ==
    IF S = {} THEN <<>>
    ELSE LET least == CHOOSE x \in S : \A y \in S : ~LexLess(y, x)
         IN  <<least>> \o SortStrings(S \ {least})

\* A merge that keeps the lines as they were collected.
ImportList_AsCollected(allMethodImports) == allMethodImports

\* importList: the distinct lines, sorted.
ImportList(allMethodImports) == SortStrings(Range(allMethodImports))

RECURSIVE ImportLines(_)
ImportLines(importList) ==
    IF importList = <<>> THEN <<>>
    ELSE <<"TAB">> \o Head(importList) \o <<"NL">>
           \o ImportLines(Tail(importList))

\* finalImportBlock
FinalImportBlock(allMethodImports) ==
    <<"IMPORT(", "NL">> \o ImportLines(ImportList(allMethodImports))
        \o <<")", "NL">>

-----------------------------------------------------------------------------
(* aggregateAndFormatOutput *)

\* The text of a generated function: Go that parses into declarations, or not.
GoCode(decls) == [parses |-> TRUE, decls |-> decls]
BadGoCode == [parses |-> FALSE, decls |-> <<>>]

\* One WriteString of finalCodeBuilder.  kind says what text holds: "package"
\* (the package name), "import" (tokens), "sep" (line breaks), "decl" (the
\* printed declaration), "doc" (tokens) or "code" (the function's text).
Part(kind, text) == [kind |-> kind, text |-> text]

\* A loop that writes every doc comment, blank or not.
RECURSIVE MethodParts_AlwaysDoc(_)
MethodParts_AlwaysDoc(generatedMethods) ==
    IF generatedMethods = <<>> THEN <<>>
    ELSE LET method == Head(generatedMethods)
         IN  <<Part("doc", method.DocComment), Part("sep", <<"NL">>),
               Part("code", <<method.Code>>), Part("sep", <<"NL", "NL">>)>>
               \o MethodParts_AlwaysDoc(Tail(generatedMethods))

\* The loop over generatedMethods: the doc comment when it is not blank, a
\* line break, the code, two line breaks.
RECURSIVE MethodParts(_)
MethodParts(generatedMethods) ==
    IF generatedMethods = <<>> THEN <<>>
    ELSE LET method == Head(generatedMethods)
         IN  (IF TrimSpace(method.DocComment) # <<>>
              THEN <<Part("doc", method.DocComment), Part("sep", <<"NL">>)>>
              ELSE <<>>)
               \o <<Part("code", <<method.Code>>), Part("sep", <<"NL", "NL">>)>>
               \o MethodParts(Tail(generatedMethods))

\* An assembly that writes the generated functions ahead of the declarations.
FinalCode_MethodsFirst(pkgName, ifaceSrc, implStructSrc, varCheckSrc, generatedMethods, allMethodImports) ==
    << Part("package", <<pkgName>>),
       Part("import", FinalImportBlock(allMethodImports)),
       Part("sep", <<"NL">>) >>
      \o MethodParts(generatedMethods)
      \o << Part("decl", ifaceSrc),
            Part("sep", <<"NL", "NL">>),
            Part("decl", implStructSrc),
            Part("sep", <<"NL", "NL">>),
            Part("decl", varCheckSrc),
            Part("sep", <<"NL", "NL">>) >>

\* finalCode, before the formatter sees it.
FinalCode(pkgName, ifaceSrc, implStructSrc, varCheckSrc, generatedMethods, allMethodImports) ==
    << Part("package", <<pkgName>>),
       Part("import", FinalImportBlock(allMethodImports)),
       Part("sep", <<"NL">>),
       Part("decl", ifaceSrc),
       Part("sep", <<"NL", "NL">>),
       Part("decl", implStructSrc),
       Part("sep", <<"NL", "NL">>),
       Part("decl", varCheckSrc),
       Part("sep", <<"NL", "NL">>) >>
      \o MethodParts(generatedMethods)

ImportPaths == {"context", "fmt", "time"}

\* A doc comment the parser accepts before a function: comments and white
\* space only.
IsComment(doc) == \A i \in 1..Len(doc) : doc[i] \in WhiteSpace \cup {"//doc"}

\* Whether go/parser accepts one part of finalCode in its place.
PartParses(part, allMethodImports) ==
    CASE part.kind = "import" ->
            \A i \in 1..Len(allMethodImports) :
                /\ Len(allMethodImports[i]) = 1
                /\ allMethodImports[i][1] \in ImportPaths
      [] part.kind = "doc" -> IsComment(part.text)
      [] part.kind = "code" -> part.text[1].parses
      [] OTHER -> TRUE

RECURSIVE PartDecls(_)
PartDecls(parts) ==
    IF parts = <<>> THEN <<>>
    ELSE LET part == Head(parts)
         IN  (CASE part.kind = "decl" -> part.text
                [] part.kind = "code" -> part.text[1].decls
                [] OTHER -> <<>>)
               \o PartDecls(Tail(parts))

RECURSIVE PrintDecls(_)
PrintDecls(decls) ==
    IF decls = <<>> THEN <<>>
    ELSE <<PrintDecl(Head(decls))>> \o PrintDecls(Tail(decls))

\* imports.Process: an error when the text does not parse, otherwise the file
\* in the printer's layout, its import declaration first when it has one.
ImportsProcess(finalCode, allMethodImports) ==
    IF \E i \in 1..Len(finalCode) : ~PartParses(finalCode[i], allMethodImports)
    THEN [err |-> "format", file |-> BadGoFile]
    ELSE [err |-> "none",
          file |-> GoFile((IF allMethodImports # <<>>
                           THEN <<GenDecl("import", <<>>, "printed")>>
                           ELSE <<>>)
                          \o PrintDecls(PartDecls(finalCode)))]

\* An assembly that hands out the text as it is when the formatter fails.
AggregateAndFormatOutput_IgnoresFormatter(pkgName, ifaceSrc, implStructSrc, varCheckSrc, generatedMethods, allMethodImports) ==
    LET finalCode == FinalCode(pkgName, ifaceSrc, implStructSrc, varCheckSrc,
                               generatedMethods, allMethodImports)
        formatted == ImportsProcess(finalCode, allMethodImports)
    IN  [err |-> "none",
         formattedCode |-> formatted.file,
         finalCode |-> finalCode]

AggregateAndFormatOutput(pkgName, ifaceSrc, implStructSrc, varCheckSrc, generatedMethods, allMethodImports) ==
    LET finalCode == FinalCode(pkgName, ifaceSrc, implStructSrc, varCheckSrc,
                               generatedMethods, allMethodImports)
        formatted == ImportsProcess(finalCode, allMethodImports)
    IN  [err |-> formatted.err,
         formattedCode |-> formatted.file,
         finalCode |-> finalCode]

-----------------------------------------------------------------------------
(* ExtractEntityDefinitions *)

(***************************************************************************)
(* A file name is a sequence of tokens: its first character, the rest of   *)
(* its base name, and its suffixes "_test", ".go", ".md".  An identifier   *)
(* of a catalog file is a token sequence too: type User is <<"U", "ser">>, *)
(* func NewUser is <<"New", "U", "ser">>.                                  *)
(*                                                                         *)
(* An entry of the tree is what WalkDir hands the callback: the directory  *)
(* path, the name, whether it is a directory, whether WalkDir reports an   *)
(* error for it, whether os.ReadFile fails on it, and its syntax tree.     *)
(***************************************************************************)
DirEntry(dir, name, isDir, walkErr, readErr, ast) ==
    [dir |-> dir, name |-> name, isDir |-> isDir, walkErr |-> walkErr,
     readErr |-> readErr, ast |-> ast]

EntryPath(e) == e.dir \o e.name

\* strings.HasSuffix for a suffix of one or two tokens.
HasSuffix(name, suffix) ==
    /\ Len(name) >= Len(suffix)
    /\ SubSeq(name, Len(name) - Len(suffix) + 1, Len(name)) = suffix

\* strings.ToUpper of one character.
ToUpper(c) ==
    CASE c = "u" -> "U"
      [] c = "a" -> "A"
      [] c = "o" -> "O"
      [] c = "c" -> "C"
      [] c = "i" -> "I"
      [] c = "d" -> "D"
      [] c = "w" -> "W"
      [] c = "t" -> "T"
      [] c = "b" -> "B"
      [] c = "l" -> "L"
      [] c = "n" -> "N"
      [] c = "p" -> "P"
      [] OTHER -> c

\* Only .go files are scanned, and no _test.go file.
IsScannedName(name) ==
    ~(~HasSuffix(name, <<".go">>) \/ HasSuffix(name, <<"_test", ".go">>))

BaseName(name) == TrimSuffix(name, ".go")

EntityName(baseName) == <<ToUpper(baseName[1])>> \o Tail(baseName)

\* foundType: some TypeSpec of some type declaration is named entityName.
FoundType(decls, entityName) ==
    \E i \in 1..Len(decls) :
        /\ decls[i].tok = "type"
        /\ \E j \in 1..Len(decls[i].specs) : decls[i].specs[j].name = entityName

\* The FuncDecls named New<entityName>, by position.
NewFuncs(decls, entityName) ==
    {i \in 1..Len(decls) :
        decls[i].tok = "func" /\ decls[i].name = <<"New">> \o entityName}

\* newFuncDecl: the loop does not stop at a match, so the last one stays
\* (0 stands for nil).
NewFuncDecl(decls, entityName) ==
    IF NewFuncs(decls, entityName) = {} THEN 0
    ELSE SetMax(NewFuncs(decls, entityName))

\* A scan that is content with either half of the pair.
SkipsFile_NeedsEither(foundType, newFuncDecl) == ~foundType /\ newFuncDecl = 0

\* The file is skipped unless both were found.
SkipsFile(foundType, newFuncDecl) == ~foundType \/ newFuncDecl = 0

\* A filter that keeps the declarations after the New function too.
RECURSIVE FilteredDecls_WholeFile(_, _, _)
FilteredDecls_WholeFile(decls, i, newFuncPos) ==
    IF i > Len(decls) THEN <<>>
    ELSE (IF decls[i].tok # "import" THEN <<decls[i]>> ELSE <<>>)
           \o FilteredDecls_WholeFile(decls, i + 1, newFuncPos)

\* The declarations printed into Code: those that end at or before the end of
\* the New function (declarations follow one another, so those at or before
\* its position), import declarations left out.
RECURSIVE FilteredDecls(_, _, _)
FilteredDecls(decls, i, newFuncPos) ==
    IF i > Len(decls) THEN <<>>
    ELSE (IF i <= newFuncPos /\ decls[i].tok # "import"
          THEN <<decls[i]>> ELSE <<>>)
           \o FilteredDecls(decls, i + 1, newFuncPos)

EntityDefinition(fileName, code) == [FileName |-> fileName, Code |-> code]

\* One call of the WalkDir callback: an error, nothing, or a record.
VisitEntry(e) ==
    IF e.walkErr THEN [kind |-> "error"]
    ELSE IF e.isDir THEN [kind |-> "skip"]
    ELSE IF ~IsScannedName(e.name) THEN [kind |-> "skip"]
    ELSE IF e.readErr THEN [kind |-> "error"]
    ELSE IF ~e.ast.parses THEN [kind |-> "error"]
    ELSE IF BaseName(e.name) = <<>> THEN [kind |-> "skip"]
    ELSE
      LET entityName == EntityName(BaseName(e.name))
          foundType == FoundType(e.ast.decls, entityName)
          newFuncDecl == NewFuncDecl(e.ast.decls, entityName)
      IN  IF SkipsFile(foundType, newFuncDecl) THEN [kind |-> "skip"]
          ELSE [kind |-> "record",
                def |-> EntityDefinition(EntryPath(e),
                          PrintDecls(FilteredDecls(e.ast.decls, 1, newFuncDecl)))]

\* The walk: the first error ends it.
RECURSIVE WalkDir(_, _)
WalkDir(entries, results) ==
    IF entries = <<>> THEN [err |-> "none", results |-> results]
    ELSE LET v == VisitEntry(Head(entries))
         IN  CASE v.kind = "error" -> [err |-> "walk", results |-> results]
               [] v.kind = "skip" -> WalkDir(Tail(entries), results)
               [] v.kind = "record" -> WalkDir(Tail(entries), Append(results, v.def))

\* A scan that hands out the records it had when the walk failed.
ExtractEntityDefinitions_KeepsRecords(tree) ==
    LET walked == WalkDir(tree, <<>>)
    IN  [err |-> walked.err, results |-> walked.results]

\* if err != nil { return nil, err }; return results, nil
ExtractEntityDefinitions(tree) ==
    LET walked == WalkDir(tree, <<>>)
    IN  IF walked.err # "none" THEN [err |-> walked.err, results |-> <<>>]
        ELSE [err |-> "none", results |-> walked.results]

-----------------------------------------------------------------------------
(* sqlc.yml and the config merge *)

(***************************************************************************)
(* A YAML value of a queries list: a string or something else (a number,   *)
(* a mapping).                                                             *)
(***************************************************************************)
StringValue(v) == [str |-> TRUE, v |-> v]
OtherValue(v) == [str |-> FALSE, v |-> v]

\* An element of the sql list as yaml.v3 decodes it into interface{}:
\* "strmap" is a mapping whose keys are all strings (map[string]interface{}),
\* "anymap" a mapping with some other key (map[interface{}]interface{}),
\* "scalar" anything that is no mapping.  qKind is what the key queries
\* holds: nothing, a scalar or a list.
Block(kind, qKind, queries) == [kind |-> kind, qKind |-> qKind, queries |-> queries]

\* The decoded document: what the key sql holds, and the elements if it is a
\* list.
Document(sqlKind, blocks) == [sqlKind |-> sqlKind, blocks |-> blocks]

\* The file: missing, not YAML of a mapping ("garbled"), empty, or a
\* document in some layout: "raw" as a person wrote it (key order, comments,
\* quoting) or "canon" as yaml.Marshal prints it.
ConfigFile(state, layout, doc) == [state |-> state, layout |-> layout, doc |-> doc]

NoDocument == Document("absent", <<>>)

MissingFile == ConfigFile("missing", "raw", NoDocument)
GarbledFile == ConfigFile("garbled", "raw", NoDocument)
EmptyFile == ConfigFile("empty", "raw", NoDocument)

\* yaml.Unmarshal(configData, &sqlcConfig): the document, whatever the layout.
Unmarshal(file) == file.doc

\* yaml.Marshal(sqlcConfig): the document in Marshal's own layout.
Marshal(doc) == ConfigFile("ok", "canon", doc)

\* filepath.Clean on the paths of the model.
CleanPath(path) == IF path = "./query/new_query.sql" THEN "query/new_query.sql" ELSE path

\* A membership test that compares cleaned paths.
FoundQuery_CleanedPaths(queries, relativeQueryPath) ==
    \E k \in 1..Len(queries) :
        queries[k].str /\ CleanPath(queries[k].v) = CleanPath(relativeQueryPath)

\* q.(string) ok and qs == relativeQueryPath, for some q of queries
FoundQuery(queries, relativeQueryPath) ==
    \E k \in 1..Len(queries) :
        queries[k].str /\ queries[k].v = relativeQueryPath

\* A loop body that puts the path in front of the list.
UpdateBlock_Prepends(block, relativeQueryPath) ==
    IF block.kind # "strmap" \/ block.qKind # "list" THEN block
    ELSE IF FoundQuery(block.queries, relativeQueryPath) THEN block
    ELSE [block EXCEPT !.queries = <<StringValue(relativeQueryPath)>> \o @]

\* A loop body that appends without looking.
UpdateBlock_AlwaysAppends(block, relativeQueryPath) ==
    IF block.kind # "strmap" \/ block.qKind # "list" THEN block
    ELSE [block EXCEPT !.queries = Append(@, StringValue(relativeQueryPath))]

\* A loop body that makes a list where queries holds none.
UpdateBlock_CreatesList(block, relativeQueryPath) ==
    IF block.kind # "strmap" THEN block
    ELSE IF block.qKind # "list"
    THEN [block EXCEPT !.qKind = "list",
                       !.queries = <<StringValue(relativeQueryPath)>>]
    ELSE IF FoundQuery(block.queries, relativeQueryPath) THEN block
    ELSE [block EXCEPT !.queries = Append(@, StringValue(relativeQueryPath))]

\* One turn of the loop over sqlBlocks.
UpdateBlock(block, relativeQueryPath) ==
    IF block.kind # "strmap" THEN block
    ELSE IF block.qKind # "list" THEN block
    ELSE IF FoundQuery(block.queries, relativeQueryPath) THEN block
    ELSE [block EXCEPT !.queries = Append(@, StringValue(relativeQueryPath))]

UpdateBlocks(sqlBlocks, relativeQueryPath) ==
    [i \in 1..Len(sqlBlocks) |-> UpdateBlock(sqlBlocks[i], relativeQueryPath)]

\* os.WriteFile(sqlcConfigPath, newConfigData, 0644): the outcomes.  A write
\* that fails has left the file as it was or has truncated it already.
WriteOutcomes(old, new) ==
    {[err |-> "none", file |-> new], [err |-> "write", file |-> old],
     [err |-> "write", file |-> EmptyFile]}

Returned(err, wrote, file) == [err |-> err, wrote |-> wrote, file |-> file]

\* SQLGenerator.updateSqlcConfig: every way the call can end.
UpdateSqlcConfig(file, relativeQueryPath) ==
    IF file.state = "missing" THEN {Returned("read", FALSE, file)}
    ELSE IF file.state = "garbled" THEN {Returned("parse", FALSE, file)}
    ELSE
      LET sqlcConfig == Unmarshal(file)
      IN  IF sqlcConfig.sqlKind # "list"
          THEN {Returned("structure", FALSE, file)}
          ELSE
            LET updated == [sqlcConfig EXCEPT
                               !.blocks = UpdateBlocks(@, relativeQueryPath)]
            IN  {Returned(w.err, w.err = "none", w.file) :
                    w \in WriteOutcomes(file, Marshal(updated))}

\* The tail of the legacy GenerateSQL: it warns and returns nil throughout,
\* and it marshals and writes whatever it parsed.
LegacyUpdateSqlcConfig(file, relativeQueryPath) ==
    IF file.state = "missing" THEN {Returned("none", FALSE, file)}
    ELSE IF file.state = "garbled" THEN {Returned("none", FALSE, file)}
    ELSE
      LET sqlcConfig == Unmarshal(file)
          updated == IF sqlcConfig.sqlKind = "list"
                     THEN [sqlcConfig EXCEPT
                              !.blocks = UpdateBlocks(@, relativeQueryPath)]
                     ELSE sqlcConfig
      IN  {Returned("none", w.err = "none", w.file) :
              w \in WriteOutcomes(file, Marshal(updated))}

-----------------------------------------------------------------------------
(* Config merge: the files the model draws from *)

\* The most elements the sql list of a file holds.
MaxBlocks == 2

\* The most runs of the merge over one file.
MaxRuns == 2

NewSql == "query/new_query.sql"
ExistingSql == "query/existing.sql"

\* Another spelling of the path NewSql.
DotNewSql == "./query/new_query.sql"

QueryLists ==
    {<<>>,
     <<StringValue(ExistingSql)>>,
     <<StringValue(NewSql)>>,
     <<StringValue(ExistingSql), StringValue(NewSql)>>,
     <<StringValue(NewSql), StringValue(NewSql)>>,
     <<StringValue(DotNewSql)>>,
     <<OtherValue("42")>>,
     <<OtherValue("42"), StringValue(ExistingSql)>>}

CfgBlockPool ==
    {Block("strmap", "list", q) : q \in QueryLists}
      \cup {Block("strmap", "absent", <<>>), Block("strmap", "scalar", <<>>),
            Block("anymap", "list", <<StringValue(ExistingSql)>>),
            Block("scalar", "absent", <<>>)}

CfgDocuments ==
    {Document("absent", <<>>), Document("scalar", <<>>)}
      \cup {Document("list", b) : b \in SeqsUpTo(CfgBlockPool, MaxBlocks)}

CfgFilePool ==
    {MissingFile, GarbledFile, EmptyFile}
      \cup {ConfigFile("ok", l, d) : l \in {"raw", "canon"}, d \in CfgDocuments}

CfgInit ==
    /\ cfgVersion \in {"refactored", "legacy"}
    /\ cfgRef \in {NewSql, ExistingSql}
    /\ \E file \in CfgFilePool : cfgFiles = <<file>>
    /\ cfgLog = <<>>

\* One run of the merge over the file as the run before left it.
CfgUpdate ==
    /\ Len(cfgLog) < MaxRuns
    /\ \E r \in (IF cfgVersion = "refactored"
                 THEN UpdateSqlcConfig(cfgFiles[Len(cfgFiles)], cfgRef)
                 ELSE LegacyUpdateSqlcConfig(cfgFiles[Len(cfgFiles)], cfgRef)) :
          /\ cfgFiles' = Append(cfgFiles, r.file)
          /\ cfgLog' = Append(cfgLog, [err |-> r.err, wrote |-> r.wrote])
    /\ UNCHANGED <<cfgVersion, cfgRef>>
    /\ UNCHANGED cfgOthers

CfgNext == CfgUpdate

CfgIdle ==
    /\ cfgVersion = "idle"
    /\ cfgRef = ""
    /\ cfgFiles = <<>>
    /\ cfgLog = <<>>

-----------------------------------------------------------------------------
(* Extraction: the source files and the responses the model draws from *)

\* The most declarations a source file of the extraction model holds.
MaxDecls == 4

IfaceStore ==
    GenDecl("type", <<TypeSpec("Store", "interface", <<<<"Put">>, <<"Get">>>>)>>, "raw")

\* An interface with a field of two names and an embedded interface.
IfaceOther ==
    GenDecl("type",
            <<TypeSpec("Other", "interface", <<<<"Baz", "Abc">>, <<>>, <<"Get">>>>)>>,
            "raw")

StructStoreImpl == GenDecl("type", <<TypeSpec("StoreImpl", "struct", <<>>)>>, "raw")

StructOtherImpl == GenDecl("type", <<TypeSpec("OtherImpl", "struct", <<>>)>>, "printed")

VarStore ==
    GenDecl("var", <<ValueSpec(<<"_">>, "Store", <<CompositeLit("StoreImpl")>>)>>, "raw")

VarOther ==
    GenDecl("var",
            <<ValueSpec(<<"count">>, "int", <<OtherExpr("basic")>>),
              ValueSpec(<<"_">>, "Other", <<CompositeLit("OtherImpl")>>)>>,
            "raw")

\* type ( StoreImpl struct{}; Store interface{ Get(); Put() }; Other interface{ Baz() } )
GroupedTypes ==
    GenDecl("type",
            <<TypeSpec("StoreImpl", "struct", <<>>),
              TypeSpec("Store", "interface", <<<<"Get">>, <<"Put">>>>),
              TypeSpec("Other", "interface", <<<<"Baz">>>>)>>,
            "raw")

FuncHelper == FuncDecl("helper", FALSE, "raw")

ExDeclPool ==
    {IfaceStore, IfaceOther, StructStoreImpl, StructOtherImpl, VarStore, VarOther,
     GroupedTypes, FuncHelper}

\* The sequences of at most n distinct members of S.
DistinctSeqs(S, n) ==
    {q \in SeqsUpTo(S, n) : \A i, j \in 1..Len(q) : i # j => q[i] # q[j]}

ExFiles == {GoFile(q) : q \in DistinctSeqs(ExDeclPool, MaxDecls)} \cup {BadGoFile}

MethodFunc(name) == FuncDecl(name, TRUE, "raw")

\* The answers of the oracle the extraction model assembles with: none, one
\* plain function, a function followed by declarations of its own (an
\* interface, its struct and its assertion), and text that does not parse.
ExResponseLists ==
    { <<>>,
      <<GenerationResponse("Put", GoCode(<<MethodFunc("Put")>>),
                           <<"IMPORT(", "NL", "TAB", "fmt", "NL", ")">>, <<"//doc">>)>>,
      <<GenerationResponse("Put", GoCode(<<MethodFunc("Put")>>), <<>>, <<"SP">>),
        GenerationResponse("Get",
                           GoCode(<<MethodFunc("Get"),
                                    GenDecl("type",
                                            <<TypeSpec("Late", "interface", <<<<"Zed">>>>),
                                              TypeSpec("LateImpl", "struct", <<>>)>>,
                                            "raw"),
                                    GenDecl("var",
                                            <<ValueSpec(<<"_">>, "Late",
                                                        <<CompositeLit("LateImpl")>>)>>,
                                            "raw")>>),
                           <<"IMPORT(", "NL", "time", "NL", "fmt", "NL", ")">>,
                           <<"//doc">>)>>,
      <<GenerationResponse("Put", BadGoCode, <<>>, <<>>)>> }

ExPending == ExtractError("pending")

NoArtifact == [err |-> "pending", formattedCode |-> BadGoFile, finalCode |-> <<>>]

ExInit ==
    /\ exFile \in ExFiles
    /\ exOut = ExPending
    /\ exArtifact = NoArtifact
    /\ exResponses = <<>>
    /\ exOut2 = ExPending
    /\ exPc = "start"

\* ExtractFirstInterface(exFile)
ExExtract ==
    /\ exPc = "start"
    /\ exOut' = ExtractFirstInterface(exFile)
    /\ exPc' = "extracted"
    /\ UNCHANGED <<exFile, exArtifact, exResponses, exOut2>>
    /\ UNCHANGED exOthers

\* aggregateAndFormatOutput on what the extraction returned and the oracle's
\* answers.
ExAssemble ==
    /\ exPc = "extracted"
    /\ exOut.err = "none"
    /\ \E responses \in ExResponseLists :
          /\ exResponses' = responses
          /\ exArtifact' = AggregateAndFormatOutput("infra", exOut.ifaceSrc,
                              exOut.implStructSrc, exOut.varCheckSrc,
                              responses, AllMethodImports(responses))
    /\ exPc' = "assembled"
    /\ UNCHANGED <<exFile, exOut, exOut2>>
    /\ UNCHANGED exOthers

\* ExtractFirstInterface on the file the assembly produced.
ExReExtract ==
    /\ exPc = "assembled"
    /\ exArtifact.err = "none"
    /\ exOut2' = ExtractFirstInterface(exArtifact.formattedCode)
    /\ exPc' = "reextracted"
    /\ UNCHANGED <<exFile, exOut, exArtifact, exResponses>>
    /\ UNCHANGED exOthers

ExNext == ExExtract \/ ExAssemble \/ ExReExtract

ExIdle ==
    /\ exFile = BadGoFile
    /\ exOut = ExPending
    /\ exArtifact = NoArtifact
    /\ exResponses = <<>>
    /\ exOut2 = ExPending
    /\ exPc = "idle"

-----------------------------------------------------------------------------
(* Extraction: files with the shapes of declaration the scans tell apart *)

\* The most declarations a file of shapes holds.
MaxShapes == 3

\* type StoreImpl interface{}
ImplInterface == GenDecl("type", <<TypeSpec("StoreImpl", "interface", <<>>)>>, "raw")

\* type StoreImpl = base
ImplAlias == GenDecl("type", <<TypeSpec("StoreImpl", "alias", <<>>)>>, "raw")

\* type StoreImpl int
ImplNamed == GenDecl("type", <<TypeSpec("StoreImpl", "ident", <<>>)>>, "raw")

\* var _ Store = &StoreImpl{}
VarPointer ==
    GenDecl("var", <<ValueSpec(<<"_">>, "Store", <<OtherExpr("unary")>>)>>, "raw")

\* var _ Store = Store(StoreImpl{})
VarConversion ==
    GenDecl("var", <<ValueSpec(<<"_">>, "Store", <<OtherExpr("call")>>)>>, "raw")

\* var _ Other = StoreImpl{}
VarOtherType ==
    GenDecl("var", <<ValueSpec(<<"_">>, "Other", <<CompositeLit("StoreImpl")>>)>>, "raw")

\* var _ Store = OtherImpl{}
VarOtherLiteral ==
    GenDecl("var", <<ValueSpec(<<"_">>, "Store", <<CompositeLit("OtherImpl")>>)>>, "raw")

\* var _ Store
VarNoValue == GenDecl("var", <<ValueSpec(<<"_">>, "Store", <<>>)>>, "raw")

\* var store Store = StoreImpl{}
VarNamed ==
    GenDecl("var", <<ValueSpec(<<"store">>, "Store", <<CompositeLit("StoreImpl")>>)>>, "raw")

\* var store, _ Store = StoreImpl{}, nil
VarLiteralOfOtherName ==
    GenDecl("var",
            <<ValueSpec(<<"store", "_">>, "Store",
                        <<CompositeLit("StoreImpl"), OtherExpr("ident")>>)>>,
            "raw")

\* var store, _ Store = nil, StoreImpl{}
VarLiteralSecond ==
    GenDecl("var",
            <<ValueSpec(<<"store", "_">>, "Store",
                        <<OtherExpr("ident"), CompositeLit("StoreImpl")>>)>>,
            "raw")

\* var _, store Store = StoreImpl{}, nil
VarLiteralFirst ==
    GenDecl("var",
            <<ValueSpec(<<"_", "store">>, "Store",
                        <<CompositeLit("StoreImpl"), OtherExpr("ident")>>)>>,
            "raw")

ShapePool ==
    {IfaceStore, StructStoreImpl, StructOtherImpl, ImplInterface, ImplAlias, ImplNamed,
     VarStore, VarPointer, VarConversion, VarOtherType, VarOtherLiteral, VarNoValue,
     VarNamed, VarLiteralOfOtherName, VarLiteralSecond, VarLiteralFirst}

ShapeFiles == {GoFile(q) : q \in DistinctSeqs(ShapePool, MaxShapes)}

ShapesInit ==
    /\ exFile \in ShapeFiles
    /\ exOut = ExPending
    /\ exArtifact = NoArtifact
    /\ exResponses = <<>>
    /\ exOut2 = ExPending
    /\ exPc = "start"

-----------------------------------------------------------------------------
(* Catalog: the trees the model draws from *)

\* The most entries a tree of the catalog model holds.
MaxEntries == 3

ImportDecl == GenDecl("import", <<>>, "raw")

TypeNamed(name) == GenDecl("type", <<TypeSpec(name, "struct", <<>>)>>, "raw")

FuncNamed(name, recv) == FuncDecl(name, recv, "raw")

\* user.go: import "fmt"; type User; func NewUser; func extra
UserGo ==
    DirEntry(<<>>, <<"u", "ser", ".go">>, FALSE, FALSE, FALSE,
             GoFile(<<ImportDecl, TypeNamed(<<"U", "ser">>),
                      FuncNamed(<<"New", "U", "ser">>, FALSE),
                      FuncNamed(<<"extra">>, FALSE)>>))

\* entity/sub/account.go, two directories down: func NewAccount; type Account
AccountGo ==
    DirEntry(<<"entity/", "sub/">>, <<"a", "ccount", ".go">>, FALSE, FALSE, FALSE,
             GoFile(<<FuncNamed(<<"New", "A", "ccount">>, FALSE),
                      TypeNamed(<<"A", "ccount">>)>>))

\* order.go: type SomethingElse; func NewSomethingElse
OrderGo ==
    DirEntry(<<>>, <<"o", "rder", ".go">>, FALSE, FALSE, FALSE,
             GoFile(<<TypeNamed(<<"S", "omethingElse">>),
                      FuncNamed(<<"New", "S", "omethingElse">>, FALSE)>>))

\* other/customer.go: the type without the constructor
CustomerGo ==
    DirEntry(<<"other/">>, <<"c", "ustomer", ".go">>, FALSE, FALSE, FALSE,
             GoFile(<<TypeNamed(<<"C", "ustomer">>)>>))

\* other/invoice.go: the constructor without the type
InvoiceGo ==
    DirEntry(<<"other/">>, <<"i", "nvoice", ".go">>, FALSE, FALSE, FALSE,
             GoFile(<<FuncNamed(<<"New", "I", "nvoice">>, FALSE)>>))

\* entity/dummy_test.go: type Dummy; func NewDummy, in a test file
DummyTestGo ==
    DirEntry(<<"entity/">>, <<"d", "ummy", "_test", ".go">>, FALSE, FALSE, FALSE,
             GoFile(<<TypeNamed(<<"D", "ummy">>),
                      FuncNamed(<<"New", "D", "ummy">>, FALSE)>>))

\* thing_test.go: type Thing_test; func NewThing_test, in a test file
ThingTestGo ==
    DirEntry(<<>>, <<"t", "hing", "_test", ".go">>, FALSE, FALSE, FALSE,
             GoFile(<<TypeNamed(<<"T", "hing", "_test">>),
                      FuncNamed(<<"New", "T", "hing", "_test">>, FALSE)>>))

\* notes.md: no Go file, and not readable either
NotesMd ==
    DirEntry(<<>>, <<"n", "otes", ".md">>, FALSE, FALSE, TRUE, BadGoFile)

\* broken.go does not parse; locked.go cannot be read
BrokenGo ==
    DirEntry(<<>>, <<"b", "roken", ".go">>, FALSE, FALSE, FALSE, BadGoFile)

LockedGo ==
    DirEntry(<<"other/">>, <<"l", "ocked", ".go">>, FALSE, FALSE, TRUE, BadGoFile)

\* a directory called pkg.go, and a directory WalkDir cannot list
DirPkgGo ==
    DirEntry(<<>>, <<"p", "kg", ".go">>, TRUE, FALSE, FALSE, BadGoFile)

DirNoAccess ==
    DirEntry(<<>>, <<"p", "rivate/">>, TRUE, TRUE, FALSE, BadGoFile)

\* a file called .go
DotGo ==
    DirEntry(<<>>, <<".go">>, FALSE, FALSE, FALSE, GoFile(<<TypeNamed(<<>>)>>))

\* wallet.go: type Wallet and a method NewWallet
WalletGo ==
    DirEntry(<<>>, <<"w", "allet", ".go">>, FALSE, FALSE, FALSE,
             GoFile(<<TypeNamed(<<"W", "allet">>),
                      FuncNamed(<<"New", "W", "allet">>, TRUE)>>))

\* Item.go, its first letter a capital already: type Item; func NewItem
ItemGo ==
    DirEntry(<<>>, <<"I", "tem", ".go">>, FALSE, FALSE, FALSE,
             GoFile(<<TypeNamed(<<"I", "tem">>),
                      FuncNamed(<<"New", "I", "tem">>, FALSE)>>))

\* cart.go: import; type Cart; func NewCart; var; a method NewCart; func extra
CartGo ==
    DirEntry(<<>>, <<"c", "art", ".go">>, FALSE, FALSE, FALSE,
             GoFile(<<ImportDecl, TypeNamed(<<"C", "art">>),
                      FuncNamed(<<"New", "C", "art">>, FALSE),
                      GenDecl("var", <<>>, "raw"),
                      FuncNamed(<<"New", "C", "art">>, TRUE),
                      FuncNamed(<<"extra">>, FALSE)>>))

CatEntryPool ==
    {UserGo, CartGo, AccountGo, OrderGo, CustomerGo, InvoiceGo, DummyTestGo, ThingTestGo,
     NotesMd,
     BrokenGo, LockedGo, DirPkgGo, DirNoAccess, DotGo, WalletGo, ItemGo}

CatTrees == DistinctSeqs(CatEntryPool, MaxEntries)

CatPending == [err |-> "pending", results |-> <<>>]

CatInit ==
    /\ catTree \in CatTrees
    /\ catOut = CatPending
    /\ catPc = "start"

\* ExtractEntityDefinitions(rootDir)
CatScan ==
    /\ catPc = "start"
    /\ catOut' = ExtractEntityDefinitions(catTree)
    /\ catPc' = "done"
    /\ UNCHANGED catTree
    /\ UNCHANGED catOthers

CatNext == CatScan

CatIdle ==
    /\ catTree = <<>>
    /\ catOut = CatPending
    /\ catPc = "idle"

-----------------------------------------------------------------------------
(* Import merge: the responses the model draws from, and their rearrangements *)

\* The most responses a run of the import model starts with.
MaxResponses == 2

\* The most rearrangements of the responses one behaviour makes.
MaxEdits == 2

\* import (\n\t"fmt"\n\t"context"\n)
ImportGrouped ==
    <<"IMPORT(", "NL", "TAB", "fmt", "NL", "TAB", "context", "NL", ")">>

\* the same kind of block with stray blanks, an empty line and a final line break
ImportRagged ==
    <<"SP", "IMPORT(", "NL", "context", "SP", "NL", "NL", "TAB", "time", "NL",
      ")", "NL">>

\* import "fmt"
ImportSingle == <<"IMPORT_", "fmt">>

\* no import text at all
ImportNone == <<>>

\* bare lines without the parentheses
ImportBare == <<"time", "NL", "SP", "fmt">>

\* import ("fmt")
ImportOneLine == <<"IMPORT(", "fmt", ")">>

ImportTexts ==
    {ImportGrouped, ImportRagged, ImportSingle, ImportNone, ImportBare,
     ImportOneLine}

ImpResponse(import) == GenerationResponse("M", GoCode(<<>>), import, <<>>)

ImpResponseLists == SeqsUpTo({ImpResponse(t) : t \in ImportTexts}, MaxResponses)

\* The import block the run emits for a list of responses: the collection of
\* the method loop followed by the merge of aggregateAndFormatOutput.
EmittedImportBlock(responses) == FinalImportBlock(AllMethodImports(responses))

RECURSIVE JoinLines(_)
JoinLines(lines) ==
    IF Len(lines) = 1 THEN lines[1]
    ELSE lines[1] \o <<"NL">> \o JoinLines(Tail(lines))

\* The lines of an import text that are import lines of it.
ImportLineIndexes(import) ==
    LET lines == SplitLines(import, <<>>)
    IN  {k \in 1..Len(lines) :
            /\ TrimSpace(lines[k]) # <<>>
            /\ TrimSpace(lines[k]) \in Range(CollectImports(import))}

\* The import text with its k-th line written twice.
DuplicateLine(import, k) ==
    LET lines == SplitLines(import, <<>>)
    IN  JoinLines(SubSeq(lines, 1, k) \o SubSeq(lines, k, Len(lines)))

ImpInit ==
    /\ impResponses \in ImpResponseLists
    /\ impEmitted0 = <<>>
    /\ impEmitted = <<>>
    /\ impEdits = 0
    /\ impPc = "start"

\* The run over the responses as the oracle gave them.
ImpMerge ==
    /\ impPc = "start"
    /\ impEmitted' = EmittedImportBlock(impResponses)
    /\ impEmitted0' = impEmitted'
    /\ impPc' = "merged"
    /\ UNCHANGED <<impResponses, impEdits>>
    /\ UNCHANGED impOthers

\* The run over the same responses with two neighbours exchanged.
ImpSwap ==
    /\ impPc = "merged"
    /\ impEdits < MaxEdits
    /\ \E i \in 1..(Len(impResponses) - 1) :
          impResponses' = [impResponses EXCEPT ![i] = impResponses[i + 1],
                                               ![i + 1] = impResponses[i]]
    /\ impEmitted' = EmittedImportBlock(impResponses')
    /\ impEdits' = impEdits + 1
    /\ UNCHANGED <<impEmitted0, impPc>>
    /\ UNCHANGED impOthers

\* The run over the same responses, one import line of one of them doubled.
ImpDuplicateLine ==
    /\ impPc = "merged"
    /\ impEdits < MaxEdits
    /\ \E i \in 1..Len(impResponses) :
          \E k \in ImportLineIndexes(impResponses[i].Import) :
             impResponses' =
                [impResponses EXCEPT
                    ![i].Import = DuplicateLine(impResponses[i].Import, k)]
    /\ impEmitted' = EmittedImportBlock(impResponses')
    /\ impEdits' = impEdits + 1
    /\ UNCHANGED <<impEmitted0, impPc>>
    /\ UNCHANGED impOthers

\* The run over the same responses, one of them given a second time.
ImpDuplicateResponse ==
    /\ impPc = "merged"
    /\ impEdits < MaxEdits
    /\ \E i \in 1..Len(impResponses) :
          impResponses' = Append(impResponses, impResponses[i])
    /\ impEmitted' = EmittedImportBlock(impResponses')
    /\ impEdits' = impEdits + 1
    /\ UNCHANGED <<impEmitted0, impPc>>
    /\ UNCHANGED impOthers

ImpNext == ImpMerge \/ ImpSwap \/ ImpDuplicateLine \/ ImpDuplicateResponse

ImpIdle ==
    /\ impResponses = <<>>
    /\ impEmitted0 = <<>>
    /\ impEmitted = <<>>
    /\ impEdits = 0
    /\ impPc = "idle"

-----------------------------------------------------------------------------
(* The runs: GenerateInfra, GenerateSQL, GenerateProgram *)

\* type Plain interface{}; type PlainImpl struct{}; var _ Plain = PlainImpl{}
IfacePlain == GenDecl("type", <<TypeSpec("Plain", "interface", <<>>)>>, "raw")
StructPlainImpl == GenDecl("type", <<TypeSpec("PlainImpl", "struct", <<>>)>>, "raw")
VarPlain ==
    GenDecl("var", <<ValueSpec(<<"_">>, "Plain", <<CompositeLit("PlainImpl")>>)>>, "raw")

\* The source files a run starts from: two complete ones (two methods, three
\* methods), one whose interface has no method, one without its struct, two
\* without any interface, and one that does not parse.
RunSources ==
    {GoFile(<<IfaceStore, StructStoreImpl, VarStore>>),
     GoFile(<<FuncHelper, StructOtherImpl, IfaceOther, VarOther>>),
     GoFile(<<IfacePlain, StructPlainImpl, VarPlain>>),
     GoFile(<<IfaceStore, VarStore>>),
     GoFile(<<StructStoreImpl, FuncHelper>>),
     GoFile(<<>>),
     BadGoFile}

\* The query file: its queries, when it exists.
QueryFile(exists, queries) == [exists |-> exists, queries |-> queries]

NoQueryFile == QueryFile(FALSE, <<>>)

\* One query of an answer of the oracle, for the method it was asked for.
SqlQuery(method, n) == [method |-> method, n |-> n]

\* The answers the oracle can give to a request for the queries of a method.
SqlResponses(method) ==
    {<<SqlQuery(method, 1)>>, <<SqlQuery(method, 1), SqlQuery(method, 2)>>}

\* Answers whose import text is no block in parentheses: import "fmt" on one
\* line, and bare lines.  They are drawn for the method Put only.
ImportShapeResponses(method) ==
    IF method # "Put" THEN {}
    ELSE {GenerationResponse(method, GoCode(<<MethodFunc(method)>>), ImportSingle, <<>>),
          GenerationResponse(method, GoCode(<<MethodFunc(method)>>), ImportBare, <<>>)}

\* The answers the oracle can give to a request for the code of a method:
\* the function with imports and a doc comment, the bare function, and text
\* that is no Go.
ProgramResponses(method) ==
    {GenerationResponse(method, GoCode(<<MethodFunc(method)>>), ImportGrouped, <<"//doc">>),
     GenerationResponse(method, GoCode(<<MethodFunc(method)>>), <<>>, <<>>),
     GenerationResponse(method, BadGoCode, ImportSingle, <<>>)}
      \cup ImportShapeResponses(method)

RunQueryFiles == {NoQueryFile, QueryFile(TRUE, <<SqlQuery("Old", 1)>>)}

RunConfigs ==
    {MissingFile, GarbledFile,
     ConfigFile("ok", "raw", NoDocument),
     ConfigFile("ok", "raw", Document("scalar", <<>>)),
     ConfigFile("ok", "raw",
         Document("list", <<Block("strmap", "list", <<StringValue(ExistingSql)>>)>>)),
     ConfigFile("ok", "canon",
         Document("list", <<Block("strmap", "list", <<StringValue(NewSql)>>)>>))}

\* A request to the oracle that has not returned.
OracleRequest(kind, method) == [kind |-> kind, method |-> method]

\* A loop that asks for the first method in every turn.
NextMethod_AlwaysFirst(methods, done) == methods[1]

\* for _, method := range methods: the method of the turn after done turns.
NextMethod(methods, done) == methods[done + 1]

\* A request to the oracle and whether it was answered.
OracleCall(kind, method, ok) == [kind |-> kind, method |-> method, ok |-> ok]

\* os.WriteFile on the source file or the query file: written, or failed
\* with the file as it was or truncated already.
WriteFileOutcomes(old, new, truncated) ==
    {[err |-> "none", file |-> new], [err |-> "write", file |-> old],
     [err |-> "write", file |-> truncated]}

\* NewAIClient() in the wrappers GenerateSQL and GenerateProgram of the
\* refactored code: it can fail; the legacy functions make no client.
ClientOutcomes(version) == IF version = "refactored" THEN {TRUE, FALSE} ELSE {TRUE}

\* A loop that is content with one answer.
LoopFinished_AfterFirst(methods, done) == methods = <<>> \/ done >= 1

\* for _, method := range methods: whether the loop has run over every method.
LoopFinished(methods, done) == done = Len(methods)

\* A loop that puts the newest answer first.
AppendResponse_InFront(generatedMethods, response) == <<response>> \o generatedMethods

\* generatedMethods = append(generatedMethods, response)
AppendResponse(generatedMethods, response) == Append(generatedMethods, response)

RunInit ==
    /\ runVersion \in {"refactored", "legacy"}
    /\ runEntry \in {"GenerateInfra", "GenerateSQL", "GenerateProgram"}
    /\ runSrc \in RunSources
    /\ runQuery \in RunQueryFiles
    /\ runCfg \in RunConfigs
    /\ runStart = [src |-> runSrc, query |-> runQuery, cfg |-> runCfg]
    /\ runPc = IF runEntry = "GenerateProgram" THEN "prog.extract" ELSE "sql.extract"
    /\ runErr = "none"
    /\ runWarnings = {}
    /\ runOut = ExPending
    /\ runCalls = <<>>
    /\ runOutstanding = <<>>
    /\ runQueries = <<>>
    /\ runGenerated = <<>>
    /\ runImports = <<>>
    /\ runIo = <<>>

\* The run returns err.
Fails(err) ==
    /\ runPc' = "failed"
    /\ runErr' = err

\* One read or write of the source file ("src") or of sqlc.yml ("cfg").
IoOp(op, file) == [op |-> op, file |-> file]

\* parser.ParseFile(fset, filePath, nil, ...) in ExtractFirstInterface reads
\* the source file.
ExtractIo == <<IoOp("read", "src")>>

\* A merge that reads sqlc.yml again before it writes.
ConfigIo_ReadsAgain(version, file) ==
    <<IoOp("read", "cfg"), IoOp("read", "cfg"), IoOp("write", "cfg")>>

\* The merge reads sqlc.yml once, and calls os.WriteFile on it once unless it
\* has returned before: on a file it cannot read or parse and, in
\* updateSqlcConfig, on a document without a sql list.
ConfigIo(version, file) ==
    <<IoOp("read", "cfg")>>
      \o (IF file.state \in {"missing", "garbled"} THEN <<>>
          ELSE IF version = "refactored" /\ Unmarshal(file).sqlKind # "list" THEN <<>>
          ELSE <<IoOp("write", "cfg")>>)

\* A loop that takes the turn again when the oracle returned an error.
OnOracleError_Retries(ask) == runPc' = ask /\ UNCHANGED runErr

\* if err != nil { return fmt.Errorf("...: %w", err) } after the request of
\* the turn at ask: the run returns an error that wraps the oracle's.
OnOracleError(ask) == Fails("oracle")

\* A SQL generation that does not look at the number of methods.
CheckMethods_Skipped(methods) == "none"

\* if len(methods) == 0 { return ... "no methods found in the interface" }
CheckMethods(methods) == IF Len(methods) = 0 THEN "nomethods" ELSE "none"

\* GenerateSQL up to the schema: the client, ExtractFirstInterface and the
\* check for methods.
SqlExtract ==
    /\ runPc = "sql.extract"
    /\ \E clientOk \in ClientOutcomes(runVersion) :
          IF ~clientOk
          THEN Fails("client") /\ UNCHANGED <<runOut, runIo>>
          ELSE /\ runOut' = ExtractFirstInterface(runSrc)
               /\ runIo' = runIo \o ExtractIo
               /\ IF runOut'.err # "none" THEN Fails("extract")
                  ELSE IF CheckMethods(runOut'.methods) # "none"
                  THEN Fails(CheckMethods(runOut'.methods))
                  ELSE runPc' = "sql.load" /\ UNCHANGED runErr
    /\ UNCHANGED <<runFixed, runFiles, runWarnings, runCalls, runOutstanding,
                   runQueries, runGenerated, runImports>>
    /\ UNCHANGED runOthers

\* A load of the entity definitions whose error ends the generation.
LoadEntityDefinitions_Aborts(ok, warning) ==
    [err |-> IF ok THEN "none" ELSE "entities", warnings |-> {}]

\* What a generation does with the result of ExtractEntityDefinitions: an
\* error is logged as a warning and the section of the prompt stays empty.
LoadEntityDefinitions(ok, warning) ==
    [err |-> "none", warnings |-> IF ok THEN {} ELSE {warning}]

\* The schema file and the entity definitions: a failure of either is a
\* warning.
SqlLoad ==
    /\ runPc = "sql.load"
    /\ \E schemaOk \in BOOLEAN, entitiesOk \in BOOLEAN :
          LET entities == LoadEntityDefinitions(entitiesOk, "sql.entities")
          IN  IF entities.err # "none"
              THEN Fails(entities.err) /\ UNCHANGED runWarnings
              ELSE /\ runWarnings' = runWarnings
                                        \cup (IF schemaOk THEN {} ELSE {"sql.schema"})
                                        \cup entities.warnings
                   /\ runPc' = "sql.ask"
                   /\ UNCHANGED runErr
    /\ UNCHANGED <<runFixed, runFiles, runData>>
    /\ UNCHANGED runIo
    /\ UNCHANGED runOthers

\* One turn of the loop over methods in GenerateSQL: the request.
SqlAsk ==
    /\ runPc = "sql.ask"
    /\ runOutstanding' =
          Append(runOutstanding,
                 OracleRequest("sql", NextMethod(runOut.methods, Len(runCalls))))
    /\ runPc' = "sql.wait"
    /\ UNCHANGED <<runFixed, runFiles, runErr, runWarnings, runOut, runCalls,
                   runQueries, runGenerated, runImports>>
    /\ UNCHANGED runIo
    /\ UNCHANGED runOthers

\* The oracle returns: an error ends the run, an answer is added to
\* allQueries.
SqlAnswer ==
    /\ runPc = "sql.wait"
    /\ LET method == Head(runOutstanding).method
       IN  \/ /\ runCalls' = Append(runCalls, OracleCall("sql", method, FALSE))
              /\ OnOracleError("sql.ask")
              /\ UNCHANGED runQueries
           \/ /\ runCalls' = Append(runCalls, OracleCall("sql", method, TRUE))
              /\ \E resp \in SqlResponses(method) : runQueries' = runQueries \o resp
              /\ runPc' = IF LoopFinished(runOut.methods, Len(runCalls'))
                          THEN "sql.write" ELSE "sql.ask"
              /\ UNCHANGED runErr
    /\ runOutstanding' = Tail(runOutstanding)
    /\ UNCHANGED <<runFixed, runFiles, runWarnings, runOut, runGenerated, runImports>>
    /\ UNCHANGED runIo
    /\ UNCHANGED runOthers

\* MkdirAll and the write of the query file.
SqlWrite ==
    /\ runPc = "sql.write"
    /\ \E w \in WriteFileOutcomes(runQuery, QueryFile(TRUE, runQueries),
                                  QueryFile(TRUE, <<>>)) :
          /\ runQuery' = w.file
          /\ IF w.err = "none" THEN runPc' = "sql.config" /\ UNCHANGED runErr
             ELSE Fails("sql.write")
    /\ UNCHANGED <<runFixed, runSrc, runCfg, runWarnings, runData>>
    /\ UNCHANGED runIo
    /\ UNCHANGED runOthers

\* The merge of the query file's path into sqlc.yml: a failure is a warning.
SqlConfig ==
    /\ runPc = "sql.config"
    /\ \E r \in (IF runVersion = "refactored"
                 THEN UpdateSqlcConfig(runCfg, NewSql)
                 ELSE LegacyUpdateSqlcConfig(runCfg, NewSql)) :
          /\ runCfg' = r.file
          /\ runWarnings' = runWarnings \cup
                (IF r.err # "none" \/ ~r.wrote THEN {"sql.config"} ELSE {})
    /\ runIo' = runIo \o ConfigIo(runVersion, runCfg)
    /\ runPc' = IF runEntry = "GenerateSQL" THEN "done" ELSE "task"
    /\ UNCHANGED <<runFixed, runSrc, runQuery, runErr, runData>>
    /\ UNCHANGED runOthers

\* A GenerateInfra that goes on to the program generation after the command
\* has failed.
OnTaskError_GoesOn(err) == runPc' = "prog.extract" /\ runErr' = err

\* if err := cmd.Run(); err != nil { return ... }: GenerateInfra returns the
\* error of the command.
OnTaskError(err) == Fails(err)

\* GenerateInfra: task generate-db
TaskGenerateDb ==
    /\ runPc = "task"
    /\ \/ runPc' = "prog.extract" /\ UNCHANGED runErr
       \/ OnTaskError("task")
    /\ UNCHANGED <<runFixed, runFiles, runWarnings, runData>>
    /\ UNCHANGED runIo
    /\ UNCHANGED runOthers

\* GenerateProgram up to the auxiliary files: the client and
\* ExtractFirstInterface.
ProgExtract ==
    /\ runPc = "prog.extract"
    /\ \E clientOk \in ClientOutcomes(runVersion) :
          IF ~clientOk
          THEN Fails("client") /\ UNCHANGED <<runOut, runIo>>
          ELSE /\ runOut' = ExtractFirstInterface(runSrc)
               /\ runIo' = runIo \o ExtractIo
               /\ IF runOut'.err # "none" THEN Fails("extract")
                  ELSE runPc' = "prog.load" /\ UNCHANGED runErr
    /\ UNCHANGED <<runFixed, runFiles, runWarnings, runCalls, runOutstanding,
                   runQueries, runGenerated, runImports>>
    /\ UNCHANGED runOthers

\* db.go, models.go, the .sql.go file and txProvider.go have to be read; the
\* entity definitions may fail with a warning; go.mod has to be read.
ProgLoad ==
    /\ runPc = "prog.load"
    /\ \E auxOk \in BOOLEAN, entitiesOk \in BOOLEAN, goModOk \in BOOLEAN :
          LET entities == LoadEntityDefinitions(entitiesOk, "prog.entities")
          IN  IF ~auxOk THEN Fails("aux") /\ UNCHANGED runWarnings
              ELSE IF entities.err # "none"
              THEN Fails(entities.err) /\ UNCHANGED runWarnings
              ELSE /\ runWarnings' = runWarnings \cup entities.warnings
                   /\ IF ~goModOk THEN Fails("gomod")
                      ELSE /\ runPc' = IF LoopFinished(runOut.methods, 0)
                                       THEN "prog.write" ELSE "prog.ask"
                           /\ UNCHANGED runErr
    /\ UNCHANGED <<runFixed, runFiles, runData>>
    /\ UNCHANGED runIo
    /\ UNCHANGED runOthers

\* One turn of the loop over methods in GenerateProgram: the request.
ProgAsk ==
    /\ runPc = "prog.ask"
    /\ runOutstanding' =
          Append(runOutstanding,
                 OracleRequest("program", NextMethod(runOut.methods, Len(runGenerated))))
    /\ runPc' = "prog.wait"
    /\ UNCHANGED <<runFixed, runFiles, runErr, runWarnings, runOut, runCalls,
                   runQueries, runGenerated, runImports>>
    /\ UNCHANGED runIo
    /\ UNCHANGED runOthers

\* The oracle returns: an error ends the run, an answer is appended to
\* generatedMethods and its imports are collected.
ProgAnswer ==
    /\ runPc = "prog.wait"
    /\ LET methodName == Head(runOutstanding).method
       IN  \/ /\ runCalls' = Append(runCalls, OracleCall("program", methodName, FALSE))
              /\ OnOracleError("prog.ask")
              /\ UNCHANGED <<runGenerated, runImports>>
           \/ /\ runCalls' = Append(runCalls, OracleCall("program", methodName, TRUE))
              /\ \E response \in ProgramResponses(methodName) :
                    /\ runGenerated' = AppendResponse(runGenerated, response)
                    /\ runImports' = runImports \o CollectImports(response.Import)
              /\ runPc' = IF LoopFinished(runOut.methods, Len(runGenerated'))
                          THEN "prog.write" ELSE "prog.ask"
              /\ UNCHANGED runErr
    /\ runOutstanding' = Tail(runOutstanding)
    /\ UNCHANGED <<runFixed, runFiles, runWarnings, runOut, runQueries>>
    /\ UNCHANGED runIo
    /\ UNCHANGED runOthers

\* aggregateAndFormatOutput and the write of the source file.
ProgWrite ==
    /\ runPc = "prog.write"
    /\ LET out == AggregateAndFormatOutput("infra", runOut.ifaceSrc,
                      runOut.implStructSrc, runOut.varCheckSrc,
                      runGenerated, runImports)
       IN  IF out.err # "none"
           THEN Fails("format") /\ UNCHANGED <<runSrc, runIo>>
           ELSE \E w \in WriteFileOutcomes(runSrc, out.formattedCode, BadGoFile) :
                   /\ runSrc' = w.file
                   /\ runIo' = Append(runIo, IoOp("write", "src"))
                   /\ IF w.err = "none" THEN runPc' = "done" /\ UNCHANGED runErr
                      ELSE Fails("prog.write")
    /\ UNCHANGED <<runFixed, runQuery, runCfg, runWarnings, runData>>
    /\ UNCHANGED runOthers

RunNext ==
    \/ SqlExtract \/ SqlLoad \/ SqlAsk \/ SqlAnswer \/ SqlWrite \/ SqlConfig
    \/ TaskGenerateDb
    \/ ProgExtract \/ ProgLoad \/ ProgAsk \/ ProgAnswer \/ ProgWrite

RunIdle ==
    /\ runVersion = "idle"
    /\ runEntry = "idle"
    /\ runStart = [src |-> BadGoFile, query |-> NoQueryFile, cfg |-> MissingFile]
    /\ runSrc = BadGoFile
    /\ runQuery = NoQueryFile
    /\ runCfg = MissingFile
    /\ runPc = "idle"
    /\ runErr = "none"
    /\ runWarnings = {}
    /\ runOut = ExPending
    /\ runCalls = <<>>
    /\ runOutstanding = <<>>
    /\ runQueries = <<>>
    /\ runGenerated = <<>>
    /\ runImports = <<>>
    /\ runIo = <<>>

-----------------------------------------------------------------------------
(* Claims about ExtractFirstInterface *)

\* The interface specs of a file as (declaration, spec) positions.
IfacePositions(f) ==
    UNION {{<<i, j>> : j \in {k \in 1..Len(f.decls[i].specs) :
                                 /\ f.decls[i].tok = "type"
                                 /\ f.decls[i].specs[k].kind = "interface"}} :
           i \in 1..Len(f.decls)}

\* The interface spec no other precedes in file order.
EarliestIface(f) ==
    CHOOSE p \in IfacePositions(f) :
        \A q \in IfacePositions(f) :
            p[1] < q[1] \/ (p[1] = q[1] /\ p[2] <= q[2])

EarliestIfaceSpec(f) == f.decls[EarliestIface(f)[1]].specs[EarliestIface(f)[2]]

\* A file with exactly one interface I, a struct IImpl and the assertion
\* var _ I = IImpl{}.
RoundTripFile(f) ==
    /\ f.parses
    /\ Cardinality(IfacePositions(f)) = 1
    /\ LET I == EarliestIfaceSpec(f).name
       IN  /\ \E i \in 1..Len(f.decls) :
                 /\ f.decls[i].tok = "type"
                 /\ \E j \in 1..Len(f.decls[i].specs) :
                       /\ f.decls[i].specs[j].name = I \o "Impl"
                       /\ f.decls[i].specs[j].kind = "struct"
           /\ \E i \in 1..Len(f.decls) :
                 /\ f.decls[i].tok = "var"
                 /\ \E j \in 1..Len(f.decls[i].specs) :
                       /\ f.decls[i].specs[j].names = <<"_">>
                       /\ f.decls[i].specs[j].type = I
                       /\ f.decls[i].specs[j].values = <<CompositeLit(I \o "Impl")>>

\* C6: for a source file with exactly one interface I, a struct IImpl and the
\* assertion var _ I = IImpl{}, extraction succeeds, and extracting again from
\* the artifact assembled from the extracted texts and any fragments returns
\* the same interface text, method names, struct text and assertion text.
C6_ExtractionRoundTrips ==
    RoundTripFile(exFile) =>
        /\ exPc # "start" => exOut.err = "none"
        /\ exPc = "reextracted" =>
              /\ exOut2.err = "none"
              /\ exOut2.ifaceSrc = exOut.ifaceSrc
              /\ exOut2.methods = exOut.methods
              /\ exOut2.implStructSrc = exOut.implStructSrc
              /\ exOut2.varCheckSrc = exOut.varCheckSrc

\* C6 witness: a round trip through an artifact whose fragments declare an
\* interface, a struct and an assertion of their own, from a file whose
\* declarations were not in the printer's layout.
C6_Witness ==
    /\ exPc = "reextracted"
    /\ RoundTripFile(exFile)
    /\ Cardinality(IfacePositions(exArtifact.formattedCode)) > 1
    /\ \E i \in 1..Len(exFile.decls) : exFile.decls[i].layout = "raw"
    /\ exOut2.methods # <<>>

\* C8: the extraction recognises the first interface-kind type declaration in
\* file order and only that one: the name, the text and the method names come
\* from it, and a file has no interface exactly when the extraction reports
\* that none was found.
C8_FirstInterfaceWins ==
    exPc # "start" =>
        /\ (exOut.err = "noInterface") <=> (exFile.parses /\ IfacePositions(exFile) = {})
        /\ exOut.err = "none" =>
              /\ exOut.name = EarliestIfaceSpec(exFile).name
              /\ exOut.ifaceSrc = <<PrintDecl(exFile.decls[EarliestIface(exFile)[1]])>>
              /\ exOut.methods = Concat(EarliestIfaceSpec(exFile).fields)

\* C8 witness: a successful extraction from a file in which a second
\* interface, with a method the first does not have, follows the first in a
\* later declaration.
C8_Witness ==
    /\ exPc = "extracted"
    /\ exOut.err = "none"
    /\ \E p \in IfacePositions(exFile) :
          /\ p[1] > EarliestIface(exFile)[1]
          /\ \E n \in Range(Concat(exFile.decls[p[1]].specs[p[2]].fields)) :
                n \notin Range(exOut.methods)

\* The identifiers of the fields before field k.
RECURSIVE IdentsBefore(_, _)
IdentsBefore(fields, k) ==
    IF k <= 1 THEN 0 ELSE Len(fields[k - 1]) + IdentsBefore(fields, k - 1)

\* C9: the method names are the interface's method identifiers in member
\* declaration order, one entry per identifier, so there are as many names as
\* identifiers.
C9_MethodsInDeclarationOrder ==
    (exPc # "start" /\ exOut.err = "none") =>
        LET fields == EarliestIfaceSpec(exFile).fields
        IN  /\ Len(exOut.methods) = IdentsBefore(fields, Len(fields) + 1)
            /\ \A k \in 1..Len(fields) : \A n \in 1..Len(fields[k]) :
                  exOut.methods[IdentsBefore(fields, k) + n] = fields[k][n]

\* C9 witness: an extraction whose interface has a field of two identifiers,
\* an embedded interface, and names that are not in alphabetical order.
C9_Witness ==
    /\ exPc = "extracted"
    /\ exOut.err = "none"
    /\ exOut.methods = <<"Baz", "Abc", "Get">>

-----------------------------------------------------------------------------
(* Claims about ExtractEntityDefinitions *)

\* The entries of the tree with the path of e.
SamePath(tree, path) == {i \in 1..Len(tree) : EntryPath(tree[i]) = path}

RecordsFor(out, path) ==
    {k \in 1..Len(out.results) : out.results[k].FileName = path}

\* A .go file that is no _test.go file and declares both a type named E and a
\* function named NewE, E being its base name with the first letter in upper
\* case.
IsEntityFile(e) ==
    /\ ~e.isDir
    /\ e.name[Len(e.name)] = ".go"
    /\ ~(Len(e.name) >= 2 /\ e.name[Len(e.name) - 1] = "_test")
    /\ Len(e.name) >= 2
    /\ e.ast.parses
    /\ LET base == SubSeq(e.name, 1, Len(e.name) - 1)
           E == [base EXCEPT ![1] = ToUpper(base[1])]
       IN  /\ \E i \in 1..Len(e.ast.decls) :
                 /\ e.ast.decls[i].tok = "type"
                 /\ \E j \in 1..Len(e.ast.decls[i].specs) :
                       e.ast.decls[i].specs[j].name = E
           /\ \E i \in 1..Len(e.ast.decls) :
                 /\ e.ast.decls[i].tok = "func"
                 /\ e.ast.decls[i].name = <<"New">> \o E

\* An entry that makes the walk fail: WalkDir's own error, or a scanned file
\* that cannot be read or parsed.
IsBrokenEntry(e) ==
    \/ e.walkErr
    \/ /\ ~e.isDir
       /\ e.name[Len(e.name)] = ".go"
       /\ ~(Len(e.name) >= 2 /\ e.name[Len(e.name) - 1] = "_test")
       /\ (e.readErr \/ ~e.ast.parses)

NthOf(S, k) == CHOOSE x \in S : Cardinality({y \in S : y < x}) = k - 1

\* The members of a set of numbers in ascending order.
Ascending(S) == [k \in 1..Cardinality(S) |-> NthOf(S, k)]

\* The base name of a .go file with its first letter in upper case.
EntityOf(e) ==
    LET base == SubSeq(e.name, 1, Len(e.name) - 1)
    IN  [base EXCEPT ![1] = ToUpper(base[1])]

\* Where the constructor of a file ends: declarations follow one another, so
\* this is the position of the last function declaration named NewE.
ConstructorEnd(e) ==
    SetMax({i \in 1..Len(e.ast.decls) :
              /\ e.ast.decls[i].tok = "func"
              /\ e.ast.decls[i].name = <<"New">> \o EntityOf(e)})

\* The declarations of a file that end at or before the end of the
\* constructor and are no import declarations, by position.
UpToConstructor(e) ==
    {i \in 1..Len(e.ast.decls) :
        i <= ConstructorEnd(e) /\ e.ast.decls[i].tok # "import"}

IsUnreadableSource(e) ==
    /\ ~e.walkErr
    /\ ~e.isDir
    /\ e.name[Len(e.name)] = ".go"
    /\ ~(Len(e.name) >= 2 /\ e.name[Len(e.name) - 1] = "_test")
    /\ (e.readErr \/ ~e.ast.parses)

\* C19: a scan over a tree in which some .go file that is no test file
\* cannot be read or parsed returns an error and no records, whatever files
\* it had processed before; a scan that returns an error never returns
\* records; and a tree whose entries can all be walked, read and parsed
\* never makes the scan fail, whatever its files declare.
C19_BrokenFileFailsWholeScan ==
    catPc = "done" =>
        /\ (\E i \in 1..Len(catTree) : IsUnreadableSource(catTree[i]))
              => (catOut.err # "none" /\ catOut.results = <<>>)
        /\ catOut.err # "none" => catOut.results = <<>>
        /\ (\A i \in 1..Len(catTree) : ~IsBrokenEntry(catTree[i]))
              => catOut.err = "none"

\* C19 witness: the scan of user.go, customer.go and broken.go, in this
\* order, has returned an error and no record, although user.go qualifies
\* and was processed before broken.go failed to parse.
C19_Witness ==
    /\ catPc = "done"
    /\ catTree = <<UserGo, CustomerGo, BrokenGo>>
    /\ catOut.err # "none"
    /\ catOut.results = <<>>

-----------------------------------------------------------------------------
(* Claims about the import merge *)

\* The lines between the first line, `import (`, and the last, `)`, of a
\* block, each without its leading tab.
BlockLines(block) ==
    LET lines == SplitLines(block, <<>>)
    IN  [k \in 1..(Len(lines) - 3) |-> Tail(lines[k + 1])]

\* A block is `import (`, lines that begin with a tab, `)` and a line break.
IsImportBlock(block) ==
    LET lines == SplitLines(block, <<>>)
    IN  /\ Len(lines) >= 3
        /\ lines[1] = <<"IMPORT(">>
        /\ lines[Len(lines) - 1] = <<")">>
        /\ lines[Len(lines)] = <<>>
        /\ \A k \in 2..(Len(lines) - 2) : lines[k] # <<>> /\ Head(lines[k]) = "TAB"

\* The distinct import lines of the responses, whitespace trimmed: what is
\* left of each Import text without its `import (` and `)`, line by line.
TrimmedImportLines(responses) ==
    UNION {Range(CollectImports(responses[i].Import)) : i \in 1..Len(responses)}

\* C5: the emitted import block holds each distinct whitespace-trimmed import
\* line of the responses exactly once, in ascending lexicographic order, and
\* it is the same block after the responses are permuted, after an import
\* line of a response is doubled and after a response is repeated.
C5_ImportMergeIdempotentCommutative ==
    impPc = "merged" =>
        /\ IsImportBlock(impEmitted)
        /\ Range(BlockLines(impEmitted)) = TrimmedImportLines(impResponses)
        /\ \A j, k \in 1..Len(BlockLines(impEmitted)) :
              j < k => LexLess(BlockLines(impEmitted)[j], BlockLines(impEmitted)[k])
        /\ impEmitted = impEmitted0

\* C5 witness: two responses whose texts share a line, merged into the block
\* of "context", "fmt", "time" and merged again after they were exchanged and
\* a line of one was doubled.
C5_Witness ==
    /\ impPc = "merged"
    /\ impEdits = 2
    /\ Len(impResponses) = 2
    /\ impResponses[1].Import = ImportBare
    /\ impResponses[2].Import = DuplicateLine(ImportGrouped, 2)
    /\ BlockLines(impEmitted) = <<<<"context">>, <<"fmt">>, <<"time">>>>

-----------------------------------------------------------------------------
(* Claims about the config merge *)

\* How often the string r occurs in a queries list.
Occurrences(queries, r) ==
    Cardinality({k \in 1..Len(queries) : queries[k] = StringValue(r)})

\* Two runs were made over a document whose sql key holds a list, and both
\* wrote the file and returned nil.
TwoRunsOverSqlList ==
    /\ Len(cfgLog) = 2
    /\ cfgFiles[1].state = "ok"
    /\ cfgFiles[1].doc.sqlKind = "list"
    /\ \A n \in 1..2 : cfgLog[n].err = "none" /\ cfgLog[n].wrote

\* C1 as stated: after two runs with r over a document whose sql key holds a
\* list, every block whose queries value is a list holds r exactly once, and
\* the document after the second run is the document after the first.
C1_TwiceLeavesExactlyOne ==
    TwoRunsOverSqlList =>
        /\ \A i \in 1..Len(cfgFiles[3].doc.blocks) :
              cfgFiles[3].doc.blocks[i].qKind = "list" =>
                  Occurrences(cfgFiles[3].doc.blocks[i].queries, cfgRef) = 1
        /\ cfgFiles[3] = cfgFiles[2]

\* C1, amended: after two runs with r over a document whose sql key holds a
\* list, every block that is a mapping with string keys only and whose
\* queries value is a list holds the queries it held before, followed by r
\* if r was not among them (r once if it was absent, as often as before
\* otherwise); every other block is as it was; and the document after the
\* second run is the document after the first.
C1_TwiceAppendsIfAbsent ==
    TwoRunsOverSqlList =>
        /\ cfgFiles[3].doc.sqlKind = "list"
        /\ Len(cfgFiles[3].doc.blocks) = Len(cfgFiles[1].doc.blocks)
        /\ \A i \in 1..Len(cfgFiles[1].doc.blocks) :
              LET before == cfgFiles[1].doc.blocks[i]
                  after == cfgFiles[3].doc.blocks[i]
              IN  IF before.kind = "strmap" /\ before.qKind = "list"
                  THEN /\ after.kind = "strmap" /\ after.qKind = "list"
                       /\ after.queries =
                             IF Occurrences(before.queries, cfgRef) > 0
                             THEN before.queries
                             ELSE Append(before.queries, StringValue(cfgRef))
                       /\ Occurrences(after.queries, cfgRef) >= 1
                  ELSE after = before
        /\ cfgFiles[3] = cfgFiles[2]

\* C1 witness: two runs of updateSqlcConfig with query/new_query.sql over a
\* hand-written file with the list [query/existing.sql]; the first appended
\* the reference, the second changed nothing.
C1_Witness ==
    /\ TwoRunsOverSqlList
    /\ cfgVersion = "refactored"
    /\ cfgRef = NewSql
    /\ cfgFiles[1] =
          ConfigFile("ok", "raw",
              Document("list",
                  <<Block("strmap", "list", <<StringValue(ExistingSql)>>)>>))
    /\ cfgFiles[2].doc.blocks[1].queries =
          <<StringValue(ExistingSql), StringValue(NewSql)>>
    /\ cfgFiles[3] = cfgFiles[2]

\* The document of the file has no sql key, or the key holds no list.
NoSqlList(file) ==
    /\ file.state \in {"ok", "empty"}
    /\ file.doc.sqlKind # "list"

\* C2: a merge over a document that has no top-level sql key, or whose sql
\* key is not a list, fails with the invalid-structure error and leaves the
\* file as it was, without writing it.
C2_NoSqlListFailsUnchanged ==
    \A n \in 1..Len(cfgLog) :
        NoSqlList(cfgFiles[n]) =>
            /\ cfgLog[n].err = "structure"
            /\ ~cfgLog[n].wrote
            /\ cfgFiles[n + 1] = cfgFiles[n]

\* C2 witness: the legacy merge over a hand-written file whose sql key holds
\* a scalar returned nil and rewrote the file in Marshal's layout.
C2_Witness ==
    /\ cfgVersion = "legacy"
    /\ Len(cfgLog) >= 1
    /\ cfgFiles[1] = ConfigFile("ok", "raw", Document("scalar", <<>>))
    /\ cfgLog[1] = [err |-> "none", wrote |-> TRUE]
    /\ cfgFiles[2] = ConfigFile("ok", "canon", Document("scalar", <<>>))

\* The n-th merge returned nil and wrote the file.
MergeSucceeded(n) == cfgLog[n].err = "none" /\ cfgLog[n].wrote

\* C25: a merge that succeeded has left the document as it was but for the
\* reference at the end of some queries lists: the sql key holds what it
\* held, with as many elements of the same shapes; every queries list begins
\* with the entries it had, in their order; a list is longer by at most one
\* entry, the reference, and only a list of a mapping with string keys that
\* did not hold the reference; every other element is as it was.
C25_MergeFrame ==
    \A n \in 1..Len(cfgLog) :
        MergeSucceeded(n) =>
            LET before == cfgFiles[n].doc
                after == cfgFiles[n + 1].doc
            IN  /\ after.sqlKind = before.sqlKind
                /\ Len(after.blocks) = Len(before.blocks)
                /\ \A i \in 1..Len(before.blocks) :
                      LET old == before.blocks[i]
                          new == after.blocks[i]
                      IN  /\ new.kind = old.kind
                          /\ new.qKind = old.qKind
                          /\ Len(new.queries) \in {Len(old.queries), Len(old.queries) + 1}
                          /\ SubSeq(new.queries, 1, Len(old.queries)) = old.queries
                          /\ Len(new.queries) > Len(old.queries) =>
                                /\ new.queries[Len(new.queries)] = StringValue(cfgRef)
                                /\ old.kind = "strmap" /\ old.qKind = "list"
                                /\ \A k \in 1..Len(old.queries) :
                                      old.queries[k] # StringValue(cfgRef)

\* C25 witness: a merge of query/new_query.sql into a document with the list
\* [42, query/existing.sql] and a block whose queries key holds a scalar: the
\* list got the reference as its third entry, the other block is as it was.
C25_Witness ==
    /\ Len(cfgLog) >= 1
    /\ MergeSucceeded(1)
    /\ cfgRef = NewSql
    /\ cfgFiles[1].doc.blocks =
          <<Block("strmap", "list", <<OtherValue("42"), StringValue(ExistingSql)>>),
            Block("strmap", "scalar", <<>>)>>
    /\ cfgFiles[2].doc.blocks =
          <<Block("strmap", "list",
                  <<OtherValue("42"), StringValue(ExistingSql), StringValue(NewSql)>>),
            Block("strmap", "scalar", <<>>)>>

-----------------------------------------------------------------------------
(* Claims about the runs *)

\* The requests for the code of a method, in the order they were made.
ProgramCalls == SelectSeq(runCalls, LAMBDA c : c.kind = "program")

\* The oracle has answered one request for every method of the interface,
\* in the order of the interface.
EveryMethodAnswered ==
    /\ runOut.err = "none"
    /\ Len(ProgramCalls) = Len(runOut.methods)
    /\ \A k \in 1..Len(ProgramCalls) :
          ProgramCalls[k].ok /\ ProgramCalls[k].method = runOut.methods[k]
    /\ Len(runGenerated) = Len(runOut.methods)

\* What the merge of the fragments in hand gives.
Merged ==
    AggregateAndFormatOutput("infra", runOut.ifaceSrc, runOut.implStructSrc,
                             runOut.varCheckSrc, runGenerated, runImports)

\* C3: the source file differs from its original contents only once the
\* oracle has answered for every method of the interface and the fragments
\* have been merged without error; a run that returns because the extraction
\* failed or the oracle failed for a method leaves the source file with its
\* original contents.
C3_SourceOverwriteIsAtomic ==
    /\ runSrc # runStart.src =>
          /\ runPc \in {"done", "failed"}
          /\ EveryMethodAnswered
          /\ Merged.err = "none"
          /\ runSrc \in {Merged.formattedCode, BadGoFile}
          /\ runErr \in {"none", "prog.write"}
    /\ (runPc = "failed" /\ runErr \in {"extract", "nomethods", "oracle"}) =>
          runSrc = runStart.src

\* C3 witness: a program generation that got the fragment of the first of
\* two methods, failed at the oracle for the second and returned with the
\* source file as it was.
C3_Witness ==
    /\ runPc = "failed"
    /\ runErr = "oracle"
    /\ Len(runOut.methods) = 2
    /\ Len(runGenerated) = 1
    /\ Len(ProgramCalls) = 2
    /\ ~ProgramCalls[2].ok
    /\ runSrc = runStart.src

\* The names of the functions of a file, in the order of the file.
RECURSIVE FuncNames(_)
FuncNames(decls) ==
    IF decls = <<>> THEN <<>>
    ELSE (IF Head(decls).tok = "func" THEN <<Head(decls).name>> ELSE <<>>)
           \o FuncNames(Tail(decls))

\* The declarations of a file from the var declaration of the assertion on.
RECURSIVE AfterAssertion(_)
AfterAssertion(decls) ==
    IF decls = <<>> THEN <<>>
    ELSE IF Head(decls).tok = "var" THEN Tail(decls)
    ELSE AfterAssertion(Tail(decls))

\* C4: the fragments are collected in the order of the interface's methods
\* (the k-th fragment is the answer to the request for the k-th method), and
\* the artifact written to the source file holds them in that order after
\* the assertion.
C4_FragmentsInDeclaredOrder ==
    /\ Len(runGenerated) <= Len(runOut.methods)
    /\ \A k \in 1..Len(runGenerated) : runGenerated[k].method = runOut.methods[k]
    /\ (runPc = "done" /\ runSrc # runStart.src) =>
          FuncNames(AfterAssertion(runSrc.decls)) = runOut.methods

\* C4 witness: a program generation over the interface with the methods Baz,
\* Abc, Get that wrote the three functions in that order.
C4_Witness ==
    /\ runPc = "done"
    /\ runEntry = "GenerateProgram"
    /\ runOut.methods = <<"Baz", "Abc", "Get">>
    /\ runSrc = Merged.formattedCode
    /\ FuncNames(AfterAssertion(runSrc.decls)) = <<"Baz", "Abc", "Get">>

\* The file parses and no type declaration of it declares an interface.
HasNoInterface(file) ==
    /\ file.parses
    /\ \A i \in 1..Len(file.decls) :
          file.decls[i].tok = "type" =>
              \A j \in 1..Len(file.decls[i].specs) :
                  file.decls[i].specs[j].kind # "interface"

\* C7: over a source file without an interface declaration the extraction
\* fails with the no-interface error and the run returns that failure; it
\* makes no request to the oracle and leaves the source file, the query file
\* and sqlc.yml as they were.
C7_NoInterfaceNoEffect ==
    HasNoInterface(runStart.src) =>
        /\ runOut.err \in {"pending", "noInterface"}
        /\ runPc \in {"sql.extract", "prog.extract", "failed"}
        /\ runPc = "failed" => runErr \in {"client", "extract"}
        /\ runCalls = <<>>
        /\ runOutstanding = <<>>
        /\ runSrc = runStart.src
        /\ runQuery = runStart.query
        /\ runCfg = runStart.cfg

\* C7 witness: GenerateInfra over a file with a struct and a function only
\* has returned the extraction failure.
C7_Witness ==
    /\ runEntry = "GenerateInfra"
    /\ runStart.src = GoFile(<<StructStoreImpl, FuncHelper>>)
    /\ runPc = "failed"
    /\ runErr = "extract"
    /\ runOut.err = "noInterface"
    /\ runCalls = <<>>

\* One run was made over a document whose sql key holds a list; it wrote
\* the file and returned nil.
OneRunOverSqlList ==
    /\ Len(cfgLog) >= 1
    /\ cfgFiles[1].state = "ok"
    /\ cfgFiles[1].doc.sqlKind = "list"
    /\ cfgLog[1].err = "none" /\ cfgLog[1].wrote

\* Some element of the list is the string r, character for character.
HoldsString(queries, r) == \E k \in 1..Len(queries) : queries[k] = StringValue(r)

\* C11 as stated: after one merge with r every block whose queries value is a
\* list holds r; r was appended to exactly the lists without an element
\* string-equal to r.
C11_EveryListHoldsReference ==
    OneRunOverSqlList =>
        /\ Len(cfgFiles[2].doc.blocks) = Len(cfgFiles[1].doc.blocks)
        /\ \A i \in 1..Len(cfgFiles[1].doc.blocks) :
              LET before == cfgFiles[1].doc.blocks[i]
                  after == cfgFiles[2].doc.blocks[i]
              IN  before.qKind = "list" =>
                     /\ HoldsString(after.queries, cfgRef)
                     /\ after.queries =
                           IF HoldsString(before.queries, cfgRef)
                           THEN before.queries
                           ELSE Append(before.queries, StringValue(cfgRef))

\* C11, amended: after one merge with r every block that is a mapping with
\* string keys only and whose queries value is a list holds r; r was appended
\* to exactly those of these lists that had no element string-equal to r,
\* another spelling of the same path being no match; every other block is as
\* it was.
C11_StringKeyedListsHoldReference ==
    OneRunOverSqlList =>
        /\ Len(cfgFiles[2].doc.blocks) = Len(cfgFiles[1].doc.blocks)
        /\ \A i \in 1..Len(cfgFiles[1].doc.blocks) :
              LET before == cfgFiles[1].doc.blocks[i]
                  after == cfgFiles[2].doc.blocks[i]
              IN  IF before.kind = "strmap" /\ before.qKind = "list"
                  THEN /\ HoldsString(after.queries, cfgRef)
                       /\ after.queries =
                             IF HoldsString(before.queries, cfgRef)
                             THEN before.queries
                             ELSE Append(before.queries, StringValue(cfgRef))
                  ELSE after = before

\* C11 witness: one merge of query/new_query.sql into a document with the
\* lists [./query/new_query.sql] and [query/new_query.sql]: the first got the
\* reference appended, the second stayed as it was.
C11_Witness ==
    /\ OneRunOverSqlList
    /\ cfgRef = NewSql
    /\ Len(cfgFiles[1].doc.blocks) = 2
    /\ cfgFiles[1].doc.blocks[1] = Block("strmap", "list", <<StringValue(DotNewSql)>>)
    /\ cfgFiles[1].doc.blocks[2] = Block("strmap", "list", <<StringValue(NewSql)>>)
    /\ cfgFiles[2].doc.blocks[1].queries = <<StringValue(DotNewSql), StringValue(NewSql)>>
    /\ cfgFiles[2].doc.blocks[2] = cfgFiles[1].doc.blocks[2]

\* One run was made over a document whose sql key holds a list.
OneRunStartedOverSqlList ==
    /\ Len(cfgLog) >= 1
    /\ cfgFiles[1].state = "ok"
    /\ cfgFiles[1].doc.sqlKind = "list"

\* The queries value of the block is a list and every element is a string.
IsListOfStrings(block) ==
    /\ block.qKind = "list"
    /\ \A k \in 1..Len(block.queries) : block.queries[k].str

\* C12 as stated: a block whose queries value is anything other than a list
\* of strings is left unchanged, the merge does not fail because of it, and
\* every other block of the document with a list of strings receives the
\* reference.
C12_NonStringListSkipped ==
    OneRunStartedOverSqlList =>
        /\ cfgLog[1].err \in {"none", "write"}
        /\ cfgLog[1].wrote =>
              \A i \in 1..Len(cfgFiles[1].doc.blocks) :
                  LET before == cfgFiles[1].doc.blocks[i]
                      after == cfgFiles[2].doc.blocks[i]
                  IN  IF ~IsListOfStrings(before)
                      THEN after = before
                      ELSE before.kind = "strmap" => HoldsString(after.queries, cfgRef)

\* C12, amended: a block whose queries value is not a list (the key is
\* missing or holds a scalar) is left unchanged, the merge does not fail
\* because of it, and every other block that is a mapping with string keys
\* and has a queries list receives the reference, a list with elements that
\* are no strings included.
C12_NonListSkipped ==
    OneRunStartedOverSqlList =>
        /\ cfgLog[1].err \in {"none", "write"}
        /\ cfgLog[1].wrote =>
              \A i \in 1..Len(cfgFiles[1].doc.blocks) :
                  LET before == cfgFiles[1].doc.blocks[i]
                      after == cfgFiles[2].doc.blocks[i]
                  IN  IF before.qKind # "list"
                      THEN after = before
                      ELSE before.kind = "strmap" =>
                              /\ HoldsString(after.queries, cfgRef)
                              /\ after.qKind = "list"

\* C12 witness: one merge over a document whose first block has a scalar
\* under queries and whose second block has the list [query/existing.sql]:
\* the first block stayed, the second got the reference.
C12_Witness ==
    /\ OneRunStartedOverSqlList
    /\ cfgLog[1] = [err |-> "none", wrote |-> TRUE]
    /\ cfgRef = NewSql
    /\ Len(cfgFiles[1].doc.blocks) = 2
    /\ cfgFiles[1].doc.blocks[1] = Block("strmap", "scalar", <<>>)
    /\ cfgFiles[1].doc.blocks[2] = Block("strmap", "list", <<StringValue(ExistingSql)>>)
    /\ cfgFiles[2].doc.blocks[1] = Block("strmap", "scalar", <<>>)
    /\ cfgFiles[2].doc.blocks[2].queries = <<StringValue(ExistingSql), StringValue(NewSql)>>

\* The methods of a sequence of requests or calls.
MethodsOf(calls) == [k \in 1..Len(calls) |-> calls[k].method]

\* The requests for code made so far: those that returned, then the one that
\* has not.
ProgramRequests ==
    MethodsOf(ProgramCalls)
        \o MethodsOf(SelectSeq(runOutstanding, LAMBDA c : c.kind = "program"))

\* C13: at most one request to the oracle is outstanding at any time; the
\* requests for code made so far are the first methods of the interface,
\* one request each, in declaration order; and in a program generation that
\* succeeded the oracle was asked exactly once for every method, in
\* declaration order, and every request has returned with an answer.
C13_OncePerMethodInOrder ==
    /\ Len(runOutstanding) <= 1
    /\ Len(ProgramRequests) <= Len(runOut.methods)
    /\ ProgramRequests = SubSeq(runOut.methods, 1, Len(ProgramRequests))
    /\ (runPc = "done" /\ runEntry # "GenerateSQL") =>
          /\ runOutstanding = <<>>
          /\ MethodsOf(ProgramCalls) = runOut.methods
          /\ \A k \in 1..Len(ProgramCalls) : ProgramCalls[k].ok

\* C13 witness: a program generation over the interface with the methods
\* Baz, Abc, Get has asked for Baz and for Abc, got both answers, and waits
\* for the answer for Get.
C13_Witness ==
    /\ runEntry = "GenerateProgram"
    /\ runPc = "prog.wait"
    /\ runOut.methods = <<"Baz", "Abc", "Get">>
    /\ MethodsOf(ProgramCalls) = <<"Baz", "Abc">>
    /\ runOutstanding = <<OracleRequest("program", "Get")>>

\* The artifact of the generation that makes requests of this kind is as it
\* was at the start: the query file and sqlc.yml for SQL, the source file for
\* code.
ArtifactUntouched(kind) ==
    IF kind = "sql"
    THEN runQuery = runStart.query /\ runCfg = runStart.cfg /\ runSrc = runStart.src
    ELSE runSrc = runStart.src

\* C14: when a request to the oracle returned an error, the run has returned
\* the oracle's error; that request is the last one made (no second request
\* for the same method, none for a later method, none outstanding); the run
\* never ends in success; and the artifact of that generation has not been
\* written.
C14_OracleFailureEndsRun ==
    \A k \in 1..Len(runCalls) :
        ~runCalls[k].ok =>
            /\ k = Len(runCalls)
            /\ runOutstanding = <<>>
            /\ runPc = "failed"
            /\ runErr = "oracle"
            /\ ArtifactUntouched(runCalls[k].kind)

\* C14 witness: a SQL generation over an interface of three methods got the
\* queries of the first, failed at the oracle for the second and returned
\* with the query file and sqlc.yml as they were.
C14_Witness ==
    /\ runEntry = "GenerateSQL"
    /\ Len(runOut.methods) = 3
    /\ Len(runCalls) = 2
    /\ runCalls[1].ok
    /\ ~runCalls[2].ok
    /\ runCalls[2].method = runOut.methods[2]
    /\ runPc = "failed"
    /\ runQuery = runStart.query

-----------------------------------------------------------------------------
(* Paths: path/filepath, the path of the query file and its reference *)

(***************************************************************************)
(* A path is whether it is absolute and its elements; an element is a     *)
(* name, split at its last dot into stem and extension, or "." or "..".    *)
(***************************************************************************)
Name(stem, ext) == [stem |-> stem, ext |-> ext]
Dot == Name(".", "")
DotDot == Name("..", "")

Path(abs, segs) == [abs |-> abs, segs |-> segs]

\* The empty string as a path element, and a relative path of these names.
EmptyPath == Path(FALSE, <<>>)
RelPath(segs) == Path(FALSE, segs)

\* filepath.Clean, element by element: "." goes, ".." takes the element
\* before it away, stays at the front of a relative path and goes at the root.
RECURSIVE CleanSegs(_, _, _)
CleanSegs(abs, segs, done) ==
    IF segs = <<>> THEN done
    ELSE LET seg == Head(segs)
         IN  IF seg = Dot THEN CleanSegs(abs, Tail(segs), done)
             ELSE IF seg = DotDot
             THEN IF done # <<>> /\ done[Len(done)] # DotDot
                  THEN CleanSegs(abs, Tail(segs), SubSeq(done, 1, Len(done) - 1))
                  ELSE IF abs THEN CleanSegs(abs, Tail(segs), done)
                  ELSE CleanSegs(abs, Tail(segs), Append(done, seg))
             ELSE CleanSegs(abs, Tail(segs), Append(done, seg))

Clean(p) == Path(p.abs, CleanSegs(p.abs, p.segs, <<>>))

\* filepath.Join of two elements
Join(p, q) == Clean(Path(p.abs, p.segs \o q.segs))

\* filepath.Dir: the path up to its last separator, cleaned.
Dir(p) == Clean(Path(p.abs, SubSeq(p.segs, 1, Len(p.segs) - 1)))

\* filepath.Base: the last element.
Base(p) == IF p.segs = <<>> THEN Dot ELSE p.segs[Len(p.segs)]

\* filepath.Ext
Ext(name) == name.ext

\* The length of the longest common prefix of two sequences.
RECURSIVE CommonPrefix(_, _)
CommonPrefix(s, t) ==
    IF s = <<>> \/ t = <<>> \/ Head(s) # Head(t) THEN 0
    ELSE 1 + CommonPrefix(Tail(s), Tail(t))

\* filepath.Rel: an error when only one of the paths is absolute or when the
\* base path has a ".." the target does not share.
Rel(basepath, targpath) ==
    LET base == Clean(basepath)
        targ == Clean(targpath)
        n == CommonPrefix(base.segs, targ.segs)
        baseRest == SubSeq(base.segs, n + 1, Len(base.segs))
        targRest == SubSeq(targ.segs, n + 1, Len(targ.segs))
    IN  IF base.abs # targ.abs \/ (\E i \in 1..Len(baseRest) : baseRest[i] = DotDot)
        THEN [err |-> TRUE, path |-> EmptyPath]
        ELSE [err |-> FALSE,
              path |-> RelPath([i \in 1..Len(baseRest) |-> DotDot] \o targRest)]

\* filepath.Join("pkg", "infra")
InfraBase == RelPath(<<Name("pkg", ""), Name("infra", "")>>)

\* outputFilePath of writeSQLFile (and outputFile of the legacy GenerateSQL)
WriteSQLFilePath(infraFile) ==
    LET infraFileDir == Dir(infraFile)
        rel == Rel(InfraBase, infraFileDir)
        relSubPath == IF rel.err THEN EmptyPath ELSE rel.path
        outputDir == Join(Join(InfraBase, RelPath(<<Name("sql", ""), Name("query", "")>>)),
                          relSubPath)
        baseName == Base(infraFile)
        fileNameWithoutExt == baseName.stem
    IN  Join(outputDir, RelPath(<<Name(fileNameWithoutExt, ".sql")>>))

\* A merge that inserts the path of the query file as it is.
RelativeQueryPath_AsWritten(infraFileBasePath, sqlFilePath) == sqlFilePath

\* relativeQueryPath of updateSqlcConfig
RelativeQueryPath(infraFileBasePath, sqlFilePath) ==
    LET rel == Rel(infraFileBasePath, sqlFilePath)
    IN  IF rel.err THEN sqlFilePath ELSE rel.path

\* The most directory elements of a source path.
MaxSegs == 3

PathDirElements == {Name("pkg", ""), Name("infra", ""), Name("sub", ""), Dot, DotDot}

PathFileNames == {Name("user", ".go"), Name("user.store", ".go")}

PathInfraFiles ==
    {Path(abs, dirs \o <<file>>) :
        abs \in BOOLEAN, dirs \in SeqsUpTo(PathDirElements, MaxSegs), file \in PathFileNames}

PathInit ==
    /\ pathInfraFile \in PathInfraFiles
    /\ pathOutput = EmptyPath
    /\ pathRef = EmptyPath
    /\ pathPc = "start"

\* writeSQLFile(infraFile, allQueries)
PathWrite ==
    /\ pathPc = "start"
    /\ pathOutput' = WriteSQLFilePath(pathInfraFile)
    /\ pathPc' = "written"
    /\ UNCHANGED <<pathInfraFile, pathRef>>
    /\ UNCHANGED pathOthers

\* updateSqlcConfig(outputFile, infraBase) up to relativeQueryPath
PathMerge ==
    /\ pathPc = "written"
    /\ pathRef' = RelativeQueryPath(InfraBase, pathOutput)
    /\ pathPc' = "merged"
    /\ UNCHANGED <<pathInfraFile, pathOutput>>
    /\ UNCHANGED pathOthers

PathNext == PathWrite \/ PathMerge

PathIdle ==
    /\ pathInfraFile = EmptyPath
    /\ pathOutput = EmptyPath
    /\ pathRef = EmptyPath
    /\ pathPc = "idle"

-----------------------------------------------------------------------------
(* Claims about the layout of the assembled text *)

\* The doc comment of a fragment is empty or white space only.
HasBlankDoc(response) ==
    \A i \in 1..Len(response.DocComment) : response.DocComment[i] \in WhiteSpace

\* The parts a fragment takes in the text: its code and a blank line, and
\* ahead of them its doc comment and a line break when the comment is not
\* blank.
PartsOf(response) == IF HasBlankDoc(response) THEN 2 ELSE 4

\* The parts of the text ahead of the k-th fragment: nine for the package
\* clause, the import block, the three declarations and what separates them,
\* then those of the fragments before it.
RECURSIVE PartsBefore(_, _)
PartsBefore(responses, k) ==
    IF k = 1 THEN 9 ELSE PartsBefore(responses, k - 1) + PartsOf(responses[k - 1])

BlankLine == Part("sep", <<"NL", "NL">>)

\* C20: the assembled text is the package clause, one import block, the
\* interface declaration, the struct declaration and the assertion
\* declaration, each followed by a blank line, and then for every fragment,
\* in order, its doc comment on the line above its code when the comment is
\* not blank after trimming, its code, and a blank line; a fragment with a
\* blank doc comment adds its code and the blank line only.
C20_ArtifactLayout ==
    exPc \in {"assembled", "reextracted"} =>
        LET text == exArtifact.finalCode
            n == Len(exResponses)
        IN  /\ Len(text) = PartsBefore(exResponses, n + 1)
            /\ SubSeq(text, 1, 9)
                  = << Part("package", <<"infra">>),
                       Part("import", FinalImportBlock(AllMethodImports(exResponses))),
                       Part("sep", <<"NL">>),
                       Part("decl", exOut.ifaceSrc), BlankLine,
                       Part("decl", exOut.implStructSrc), BlankLine,
                       Part("decl", exOut.varCheckSrc), BlankLine >>
            /\ \A k \in 1..n :
                  LET at == PartsBefore(exResponses, k)
                      fragment == exResponses[k]
                  IN  IF HasBlankDoc(fragment)
                      THEN /\ text[at + 1] = Part("code", <<fragment.Code>>)
                           /\ text[at + 2] = BlankLine
                      ELSE /\ text[at + 1] = Part("doc", fragment.DocComment)
                           /\ text[at + 2] = Part("sep", <<"NL">>)
                           /\ text[at + 3] = Part("code", <<fragment.Code>>)
                           /\ text[at + 4] = BlankLine

\* C20 witness: a text assembled from two fragments, the first with a doc
\* comment of one space, the second with a comment: fifteen parts, the code
\* of the first fragment right after the assertion.
C20_Witness ==
    /\ exPc = "assembled"
    /\ Len(exResponses) = 2
    /\ HasBlankDoc(exResponses[1])
    /\ exResponses[1].DocComment # <<>>
    /\ ~HasBlankDoc(exResponses[2])
    /\ Len(exArtifact.finalCode) = 15
    /\ exArtifact.finalCode[10].kind = "code"

-----------------------------------------------------------------------------
(* Claims about the struct and the assertion of the extraction *)

\* The file has a top-level type declaration of a struct called name.
DeclaresStruct(f, name) ==
    \E i \in 1..Len(f.decls) :
        /\ f.decls[i].tok = "type"
        /\ \E j \in 1..Len(f.decls[i].specs) :
              /\ f.decls[i].specs[j].name = name
              /\ f.decls[i].specs[j].kind = "struct"

\* C15: for a file that parses and declares an interface, with I the name of
\* the first one, the extraction fails with the error that the struct was
\* not found exactly when the file has no top-level declaration of a struct
\* type called IImpl; a type called IImpl that is an interface, an alias or
\* a named type of another kind does not count.
C15_StructNotFoundExactly ==
    (exPc # "start" /\ exFile.parses /\ IfacePositions(exFile) # {}) =>
        ((exOut.err = "noStruct")
            <=> ~DeclaresStruct(exFile, EarliestIfaceSpec(exFile).name \o "Impl"))

\* C15 witness: the extraction of a file with the interface Store, the alias
\* StoreImpl and the assertion var _ Store = StoreImpl{} has reported that
\* the struct was not found.
C15_Witness ==
    /\ exPc = "extracted"
    /\ exFile = GoFile(<<IfaceStore, ImplAlias, VarStore>>)
    /\ exOut.err = "noStruct"

\* The initializer of the n-th name of a value spec: the n-th value when
\* there is one value per name, none otherwise.
OwnInitializer(vs, n) ==
    IF Len(vs.values) = Len(vs.names) THEN vs.values[n] ELSE OtherExpr("none")

\* The value spec binds _ with the type I and with, as the initializer of _,
\* a composite literal of the type IImpl.
IsAssertionOf(vs, I) ==
    /\ vs.kind = "value"
    /\ vs.type = I
    /\ \E n \in 1..Len(vs.names) :
          /\ vs.names[n] = "_"
          /\ OwnInitializer(vs, n) = CompositeLit(I \o "Impl")

\* The declaration is a var declaration with a spec of the assertion's shape.
HoldsAssertionOf(d, I) ==
    /\ d.tok = "var"
    /\ \E j \in 1..Len(d.specs) : IsAssertionOf(d.specs[j], I)

\* The extraction got as far as the scan for the assertion.
ReachedVarScan ==
    /\ exPc # "start"
    /\ exOut.err \in {"none", "noVar"}

\* C16: with I the name of the first interface, the declaration the
\* extraction returns as the conformance assertion binds _ with the declared
\* type I and with, as the initializer of _ itself, a composite literal of
\* the type IImpl, and when the file has no declaration of that shape (a
\* pointer or a conversion as initializer, another type identifier, no
\* initializer, or a literal that initializes another name of the same spec)
\* the extraction fails with the error that the assertion was not found.
C16_OnlyTheAssertionShape ==
    ReachedVarScan =>
        LET I == EarliestIfaceSpec(exFile).name
        IN  /\ exOut.err = "none" =>
                  \E i \in 1..Len(exFile.decls) :
                      /\ exOut.varCheckSrc = <<PrintDecl(exFile.decls[i])>>
                      /\ HoldsAssertionOf(exFile.decls[i], I)
            /\ (\A i \in 1..Len(exFile.decls) : ~HoldsAssertionOf(exFile.decls[i], I))
                  => exOut.err = "noVar"

\* C16 witness: the extraction of a file with the interface Store, the struct
\* StoreImpl and var store, _ Store = StoreImpl{}, nil has returned without
\* error, with that declaration as the assertion.
C16_Witness ==
    /\ exPc = "extracted"
    /\ exFile = GoFile(<<IfaceStore, StructStoreImpl, VarLiteralOfOtherName>>)
    /\ exOut.err = "none"
    /\ exOut.varCheckSrc = <<PrintDecl(VarLiteralOfOtherName)>>

-----------------------------------------------------------------------------
(* Claims about the configuration step of a run *)

\* The configuration document is missing, cannot be parsed, or has no list
\* under its sql key.
HasHardConfigError(file) ==
    \/ file.state \in {"missing", "garbled"}
    \/ Unmarshal(file).sqlKind # "list"

\* GenerateSQL has returned nil: the run is over, or GenerateInfra has gone
\* on to its next step.
SqlGenerationSucceeded ==
    \/ runEntry = "GenerateSQL" /\ runPc = "done"
    \/ runEntry = "GenerateInfra" /\ runPc = "task"

\* C17: a SQL generation over a configuration document that is missing,
\* cannot be parsed, or has no list under its sql key never completes
\* successfully: it returns the error to its caller.
C17_ConfigErrorsAbortRun ==
    HasHardConfigError(runStart.cfg) => ~SqlGenerationSucceeded

\* C17 witness: GenerateSQL of the refactored version, run without sqlc.yml,
\* has written the query file, logged the warning about the configuration
\* and returned nil.
C17_Witness ==
    /\ runVersion = "refactored"
    /\ runEntry = "GenerateSQL"
    /\ runStart.cfg = MissingFile
    /\ runPc = "done"
    /\ runErr = "none"
    /\ "sql.config" \in runWarnings
    /\ runQuery # runStart.query

-----------------------------------------------------------------------------
(* Claims about GenerateInfra and the effects of a run *)

\* C21: a GenerateInfra run that has returned an error has left the query
\* file, sqlc.yml and the source file with the contents they had before the
\* run.
C21_FailedRunLeavesNoTrace ==
    (runEntry = "GenerateInfra" /\ runPc = "failed") =>
        /\ runQuery = runStart.query
        /\ runCfg = runStart.cfg
        /\ runSrc = runStart.src

\* C21 witness: a GenerateInfra run whose SQL generation wrote the query
\* file and added it to sqlc.yml has returned the error of task generate-db;
\* both files keep what the SQL generation wrote.
C21_Witness ==
    /\ runEntry = "GenerateInfra"
    /\ runPc = "failed"
    /\ runErr = "task"
    /\ runQuery # runStart.query
    /\ runCfg # runStart.cfg
    /\ runSrc = runStart.src

\* How often the run has read or written a file.
IoCount(op, file) == Len(SelectSeq(runIo, LAMBDA o : o = IoOp(op, file)))

\* C22 as stated: a GenerateInfra run that has completed has read the source
\* file and sqlc.yml exactly once each and written each at most once.
C22_EachReadOnce ==
    (runEntry = "GenerateInfra" /\ runPc = "done") =>
        /\ IoCount("read", "src") = 1
        /\ IoCount("read", "cfg") = 1
        /\ IoCount("write", "src") <= 1
        /\ IoCount("write", "cfg") <= 1

\* C22: a GenerateInfra run writes the source file and sqlc.yml at most once
\* each, reads sqlc.yml at most once and the source file at most twice; a
\* run that has completed has read sqlc.yml exactly once and the source file
\* exactly twice, once in the SQL generation and once, after it, in the
\* program generation.
C22_SourceReadTwice ==
    runEntry = "GenerateInfra" =>
        /\ IoCount("write", "src") <= 1
        /\ IoCount("write", "cfg") <= 1
        /\ IoCount("read", "cfg") <= 1
        /\ IoCount("read", "src") <= 2
        /\ runPc = "done" =>
              /\ IoCount("read", "cfg") = 1
              /\ IoCount("read", "src") = 2
              /\ IoCount("write", "src") = 1
              /\ runIo[1] = IoOp("read", "src")
              /\ runIo[Len(runIo) - 1] = IoOp("read", "src")
              /\ runIo[Len(runIo)] = IoOp("write", "src")

\* C22 witness: a completed GenerateInfra run with the four steps read the
\* source file, read sqlc.yml, write sqlc.yml, read the source file, and
\* then the write of the source file.
C22_Witness ==
    /\ runEntry = "GenerateInfra"
    /\ runPc = "done"
    /\ runIo = <<IoOp("read", "src"), IoOp("read", "cfg"), IoOp("write", "cfg"),
                 IoOp("read", "src"), IoOp("write", "src")>>

-----------------------------------------------------------------------------
(* Claims about the path of the query file *)

\* The path walked from the current directory, element by element: the
\* directories it ends in, counted from the current directory (-1 once it
\* has left it upwards).
RECURSIVE Walk(_, _)
Walk(segs, at) ==
    IF segs = <<>> THEN at
    ELSE IF Head(segs) = Dot THEN Walk(Tail(segs), at)
    ELSE IF Head(segs) = DotDot
    THEN Walk(Tail(segs), IF at = <<>> THEN <<DotDot>>
                          ELSE IF at[Len(at)] = DotDot THEN Append(at, DotDot)
                          ELSE SubSeq(at, 1, Len(at) - 1))
    ELSE Walk(Tail(segs), Append(at, Head(segs)))

\* The directory of the source file lies at or under pkg/infra, and below are
\* the directories from pkg/infra down to it.
SourceDirUnderInfra ==
    LET dir == Walk(SubSeq(pathInfraFile.segs, 1, Len(pathInfraFile.segs) - 1), <<>>)
    IN  /\ ~pathInfraFile.abs
        /\ Len(dir) >= 2
        /\ SubSeq(dir, 1, 2) = InfraBase.segs

SourceSubDirs ==
    LET dir == Walk(SubSeq(pathInfraFile.segs, 1, Len(pathInfraFile.segs) - 1), <<>>)
    IN  SubSeq(dir, 3, Len(dir))

SqlFileName == Name(pathInfraFile.segs[Len(pathInfraFile.segs)].stem, ".sql")

\* C23: the query file is named after the source file, with .sql for its
\* extension; for a source file at or under pkg/infra it lies in
\* pkg/infra/sql/query followed by the directories from pkg/infra down to
\* the source file, and the reference the merge inserts is that path from
\* sql/ on; for every source path the reference is a relative path that,
\* joined to pkg/infra, is the path of the query file.
C23_QueryPathAndReference ==
    /\ pathPc \in {"written", "merged"} =>
          /\ pathOutput.segs # <<>>
          /\ pathOutput.segs[Len(pathOutput.segs)] = SqlFileName
          /\ SourceDirUnderInfra =>
                pathOutput = RelPath(InfraBase.segs
                                       \o <<Name("sql", ""), Name("query", "")>>
                                       \o SourceSubDirs \o <<SqlFileName>>)
    /\ pathPc = "merged" =>
          /\ ~pathRef.abs
          /\ Join(InfraBase, pathRef) = pathOutput
          /\ SourceDirUnderInfra =>
                pathRef = RelPath(<<Name("sql", ""), Name("query", "")>>
                                    \o SourceSubDirs \o <<SqlFileName>>)

\* C23 witness: for pkg/infra/sub/user.go the queries went to
\* pkg/infra/sql/query/sub/user.sql and the merge inserted
\* sql/query/sub/user.sql.
C23_Witness ==
    /\ pathPc = "merged"
    /\ pathInfraFile = RelPath(<<Name("pkg", ""), Name("infra", ""), Name("sub", ""),
                                 Name("user", ".go")>>)
    /\ pathOutput = RelPath(<<Name("pkg", ""), Name("infra", ""), Name("sql", ""),
                              Name("query", ""), Name("sub", ""), Name("user", ".sql")>>)
    /\ pathRef = RelPath(<<Name("sql", ""), Name("query", ""), Name("sub", ""),
                           Name("user", ".sql")>>)

-----------------------------------------------------------------------------
(* Claims about import text of other shapes *)

\* What is left of a text when the white space at its ends is gone.
Stripped(text) ==
    LET inner == {i \in 1..Len(text) : text[i] \notin WhiteSpace}
    IN  IF inner = {} THEN <<>> ELSE SubSeq(text, SetMin(inner), SetMax(inner))

\* The import text is there and is no block in parentheses.
IsNoImportBlock(response) ==
    LET text == Stripped(response.Import)
    IN  /\ text # <<>>
        /\ ~(text[1] = "IMPORT(" /\ text[Len(text)] = ")")

\* The import text has the keyword import in front of a path, as in
\* import "fmt".
HasImportKeywordLine(response) ==
    \E i \in 1..Len(response.Import) : response.Import[i] = "IMPORT_"

\* The program generation has an answer for every method and has returned.
ReturnedAfterLoop ==
    /\ EveryMethodAnswered
    /\ runPc \in {"done", "failed"}

\* C24 as stated: a program generation with a fragment whose import text is
\* no block in parentheses fails at the assembly and writes nothing.
C24_NonBlockImportFails ==
    (ReturnedAfterLoop /\ \E k \in 1..Len(runGenerated) : IsNoImportBlock(runGenerated[k]))
        => (runPc = "failed" /\ runErr = "format" /\ runSrc = runStart.src)

\* C24: a program generation with a fragment whose import text has the
\* keyword import in front of a path (import "fmt") carries that line as an
\* entry of the import block, and fails with the formatter's error with the
\* source file as it was; and the formatter's error is returned only when
\* some fragment has such a line or code that does not parse, so import text
\* of bare lines without parentheses is taken as it is.
C24_KeywordLineFailsFormatter ==
    ReturnedAfterLoop =>
        /\ (\E k \in 1..Len(runGenerated) : HasImportKeywordLine(runGenerated[k])) =>
              /\ \E n \in 1..Len(runImports) : runImports[n][1] = "IMPORT_"
              /\ runPc = "failed"
              /\ runErr = "format"
              /\ runSrc = runStart.src
        /\ runErr = "format" =>
              \E k \in 1..Len(runGenerated) :
                  HasImportKeywordLine(runGenerated[k]) \/ ~runGenerated[k].Code.parses

\* C24 witness: a program generation whose first fragment is a function that
\* parses, with the import text import "fmt", has returned the formatter's
\* error and left the source file as it was.
C24_Witness ==
    /\ ReturnedAfterLoop
    /\ Len(runGenerated) >= 1
    /\ runGenerated[1].Code.parses
    /\ runGenerated[1].Import = ImportSingle
    /\ \A k \in 1..Len(runGenerated) : runGenerated[k].Code.parses
    /\ runPc = "failed"
    /\ runErr = "format"
    /\ runSrc = runStart.src

-----------------------------------------------------------------------------
(* Claims about the write of the source file *)

\* C26: a run writes the source file at most once, and only after every
\* method has its fragment and the formatter has returned the whole text
\* without error; a completed program generation has left the formatter's
\* output in the file; when the formatter fails (as it does on a fragment
\* that does not parse) the run returns the formatter's error and has not
\* written the file; the file holds anything else only when the write itself
\* failed.
C26_SingleWriteOfFormattedText ==
    /\ IoCount("write", "src") <= 1
    /\ IoCount("write", "src") = 1 =>
          /\ EveryMethodAnswered
          /\ Merged.err = "none"
          /\ runPc \in {"done", "failed"}
    /\ (runPc = "done" /\ runEntry # "GenerateSQL") =>
          /\ IoCount("write", "src") = 1
          /\ runSrc = Merged.formattedCode
    /\ (ReturnedAfterLoop /\ \E k \in 1..Len(runGenerated) : ~runGenerated[k].Code.parses) =>
          /\ runPc = "failed"
          /\ runErr = "format"
    /\ runErr = "format" =>
          /\ IoCount("write", "src") = 0
          /\ runSrc = runStart.src
    /\ runSrc # runStart.src =>
          /\ IoCount("write", "src") = 1
          /\ runSrc # Merged.formattedCode => runErr = "prog.write"

\* C26 witness: a program generation with an answer for each of two methods,
\* the second one text that does not parse, has returned the formatter's
\* error without a write of the source file.
C26_Witness ==
    /\ runEntry = "GenerateProgram"
    /\ ReturnedAfterLoop
    /\ Len(runGenerated) = 2
    /\ runGenerated[1].Code.parses
    /\ ~runGenerated[2].Code.parses
    /\ runErr = "format"
    /\ runIo = <<IoOp("read", "src")>>
    /\ runSrc = runStart.src

-----------------------------------------------------------------------------
(* Claims about a failure of the entity catalog inside a run *)

\* The errors a run returns to its caller.
RunErrors ==
    {"client", "extract", "nomethods", "oracle", "sql.write", "task",
     "aux", "gomod", "format", "prog.write"}

\* C27 as stated: once the traversal of the entities root has failed in a
\* generation, the run has failed, that generation has no oracle request
\* and the files it produces hold what they held before the run.
C27_CatalogFailureAbortsRun ==
    /\ "sql.entities" \in runWarnings =>
          /\ runPc = "failed"
          /\ runCalls = <<>>
          /\ runOutstanding = <<>>
          /\ runQuery = runStart.query
          /\ runCfg = runStart.cfg
    /\ "prog.entities" \in runWarnings =>
          /\ runPc = "failed"
          /\ ProgramCalls = <<>>
          /\ runSrc = runStart.src

\* C27: a failure of the traversal of the entities root is not among the
\* errors a run returns: the generation logs it and goes on to its requests,
\* and when such a run fails it is for an error of a later step.
C27_CatalogFailureIsAWarning ==
    /\ runPc = "failed" => runErr \in RunErrors
    /\ "sql.entities" \in runWarnings =>
          /\ runPc \notin {"sql.extract", "sql.load"}
          /\ (runPc = "failed" /\ runEntry = "GenerateSQL") =>
                runErr \in {"oracle", "sql.write"}
    /\ "prog.entities" \in runWarnings =>
          /\ runPc \notin {"prog.extract", "prog.load"}
          /\ runPc = "failed" =>
                runErr \in {"gomod", "oracle", "format", "prog.write"}

\* C27 witness: a GenerateInfra run in which both traversals of the entities
\* root failed has completed, with oracle requests for the SQL and for the
\* program and with a new query file and a new source file.
C27_Witness ==
    /\ runEntry = "GenerateInfra"
    /\ {"sql.entities", "prog.entities"} \subseteq runWarnings
    /\ runPc = "done"
    /\ runErr = "none"
    /\ Len(ProgramCalls) >= 1
    /\ Len(runCalls) > Len(ProgramCalls)
    /\ runQuery # runStart.query
    /\ runSrc # runStart.src

-----------------------------------------------------------------------------
(* Claims about the order of the steps of GenerateInfra *)

\* The requests of the SQL generation.
SqlCalls == SelectSeq(runCalls, LAMBDA c : c.kind = "sql")

\* The SQL generation has run to its end: every request was answered and the
\* merge into sqlc.yml, its last step, has been made.
SqlGenerationFinished ==
    /\ Len(SqlCalls) >= 1
    /\ \A k \in 1..Len(SqlCalls) : SqlCalls[k].ok
    /\ IoCount("read", "cfg") = 1

\* The program generation has begun: it has read the source file again, or
\* is at one of its steps.
ProgramGenerationStarted ==
    \/ runPc \in {"prog.extract", "prog.load", "prog.ask", "prog.wait", "prog.write"}
    \/ IoCount("read", "src") = 2
    \/ ProgramCalls # <<>>
    \/ IoCount("write", "src") >= 1
    \/ runSrc # runStart.src

\* C28: in a GenerateInfra run the command runs only after the SQL
\* generation has run to its end, and the program generation begins only
\* after that and after the command has succeeded; every request of the SQL
\* generation precedes every request of the program generation; a run that
\* returns the error of the command, or an error with the SQL generation
\* unfinished, has not begun the program generation, so the source file is
\* overwritten only when both earlier steps succeeded.
C28_StepsInOrder ==
    runEntry = "GenerateInfra" =>
        /\ runPc = "task" => SqlGenerationFinished /\ ~ProgramGenerationStarted
        /\ ProgramGenerationStarted => SqlGenerationFinished /\ runErr # "task"
        /\ runErr = "task" =>
              /\ runPc = "failed"
              /\ SqlGenerationFinished
              /\ ~ProgramGenerationStarted
        /\ (runPc = "failed" /\ ~SqlGenerationFinished) => ~ProgramGenerationStarted
        /\ \A i \in 1..Len(runCalls) : \A j \in 1..Len(runCalls) :
              (runCalls[i].kind = "program" /\ runCalls[j].kind = "sql") => j < i
        /\ runSrc # runStart.src => SqlGenerationFinished /\ runErr # "task"
        /\ runPc = "done" => SqlGenerationFinished /\ ProgramGenerationStarted

\* C28 witness: a GenerateInfra run has completed with requests of both
\* generations, the ones for the SQL first, and with the source file
\* overwritten after the one merge into sqlc.yml.
C28_Witness ==
    /\ runEntry = "GenerateInfra"
    /\ runPc = "done"
    /\ Len(SqlCalls) = 2
    /\ Len(ProgramCalls) = 2
    /\ runCalls = SqlCalls \o ProgramCalls
    /\ runSrc # runStart.src
    /\ IoCount("read", "cfg") = 1
    /\ IoCount("write", "src") = 1

-----------------------------------------------------------------------------
(* Claims about an interface without methods *)

\* The first interface of the file is extracted without error and has no
\* method.
HasZeroMethods(file) ==
    LET out == ExtractFirstInterface(file)
    IN  out.err = "none" /\ out.methods = <<>>

\* C29: a SQL generation (GenerateSQL, or the first step of GenerateInfra)
\* over a file whose first interface has no methods gets no further than the
\* extraction: once it has a client it fails with the no-methods error, and
\* it has made no oracle request, has not read or written sqlc.yml and has
\* left the query file and the source file as they were; the no-methods
\* error is returned for such files only.
C29_NoMethodsFailsBeforeRequests ==
    /\ (runEntry \in {"GenerateSQL", "GenerateInfra"} /\ HasZeroMethods(runStart.src)) =>
          /\ runPc \in {"sql.extract", "failed"}
          /\ runPc = "failed" => runErr \in {"client", "nomethods"}
          /\ (runPc = "failed" /\ runOut.err = "none") => runErr = "nomethods"
          /\ runCalls = <<>>
          /\ runOutstanding = <<>>
          /\ IoCount("read", "cfg") = 0
          /\ IoCount("write", "cfg") = 0
          /\ runQuery = runStart.query
          /\ runCfg = runStart.cfg
          /\ runSrc = runStart.src
    /\ runErr = "nomethods" =>
          /\ runEntry \in {"GenerateSQL", "GenerateInfra"}
          /\ HasZeroMethods(runStart.src)
          /\ runPc = "failed"

\* C29 witness: GenerateSQL over the file with the interface Plain, which
\* has no methods, its struct and its assertion has extracted the three
\* declarations and returned the no-methods error.
C29_Witness ==
    /\ runEntry = "GenerateSQL"
    /\ runStart.src = GoFile(<<IfacePlain, StructPlainImpl, VarPlain>>)
    /\ runOut.err = "none"
    /\ runOut.methods = <<>>
    /\ runPc = "failed"
    /\ runErr = "nomethods"
    /\ runCalls = <<>>
    /\ runIo = <<IoOp("read", "src")>>

-----------------------------------------------------------------------------
(* Claims about the two copies of the merge *)

\* What a SQL generation hands on from one end of its merge: both copies log
\* the error of the merge and return nil, and the file is as the merge left
\* it.
RunOutcome(returned) == [err |-> "none", file |-> returned.file]

\* The ways the SQL generation of the other copy can end over the same file
\* with the same reference.
OtherCopyOutcomes(file, ref) ==
    {RunOutcome(r) : r \in (IF cfgVersion = "refactored"
                            THEN LegacyUpdateSqlcConfig(file, ref)
                            ELSE UpdateSqlcConfig(file, ref))}

\* C30: whatever one copy of the SQL generation returned to its caller and
\* left in sqlc.yml, the other copy, over the same file and with the same
\* reference, can return and leave the same.
C30_CopiesAgree ==
    \A n \in 1..Len(cfgLog) :
        [err |-> "none", file |-> cfgFiles[n + 1]]
            \in OtherCopyOutcomes(cfgFiles[n], cfgRef)

\* C30 witness: the legacy copy, over an empty sqlc.yml, has written the
\* file anew, where updateSqlcConfig over the same file ends in one way only,
\* with the structure error and the file as it was.
C30_Witness ==
    /\ cfgVersion = "legacy"
    /\ Len(cfgLog) >= 1
    /\ cfgFiles[1] = EmptyFile
    /\ cfgLog[1].wrote
    /\ cfgFiles[2] = ConfigFile("ok", "canon", NoDocument)
    /\ UpdateSqlcConfig(cfgFiles[1], cfgRef) = {Returned("structure", FALSE, EmptyFile)}

-----------------------------------------------------------------------------
(* Specifications *)

vars == <<exVars, catVars, impVars, cfgVars, runVars, pathVars>>

\* ExtractFirstInterface, the assembly and the extraction from the artifact.
InitExtract == ExInit /\ CatIdle /\ ImpIdle /\ CfgIdle /\ RunIdle /\ PathIdle

SpecExtract == InitExtract /\ [][ExNext]_vars

\* ExtractFirstInterface over the files of shapes.
InitShapes == ShapesInit /\ CatIdle /\ ImpIdle /\ CfgIdle /\ RunIdle /\ PathIdle

SpecShapes == InitShapes /\ [][ExNext]_vars

\* ExtractEntityDefinitions over a tree.
InitCatalog == CatInit /\ ExIdle /\ ImpIdle /\ CfgIdle /\ RunIdle /\ PathIdle

SpecCatalog == InitCatalog /\ [][CatNext]_vars

\* The import merge over a list of responses and its rearrangements.
InitImports == ImpInit /\ ExIdle /\ CatIdle /\ CfgIdle /\ RunIdle /\ PathIdle

SpecImports == InitImports /\ [][ImpNext]_vars

\* Runs of the config merge over one sqlc.yml.
InitConfig == CfgInit /\ ExIdle /\ CatIdle /\ ImpIdle /\ RunIdle /\ PathIdle

SpecConfig == InitConfig /\ [][CfgNext]_vars

\* The runs of the three entry points, in both versions of the code.
InitRun == RunInit /\ ExIdle /\ CatIdle /\ ImpIdle /\ CfgIdle /\ PathIdle

SpecRun == InitRun /\ [][RunNext]_vars

\* The path of the query file and its reference, for the source paths.
InitPaths == PathInit /\ ExIdle /\ CatIdle /\ ImpIdle /\ CfgIdle /\ RunIdle

SpecPaths == InitPaths /\ [][PathNext]_vars

====
